---- MODULE Spec2Model ----
(***************************************************************************)
(* A model of the client-side aggregation code of the spend tracker:       *)
(* the monthly income normaliser (Income page, IncomeOverview,             *)
(* BudgetFlowDashboard), the spending-habits analysis                      *)
(* (SpendingHabitsAnalysis.analyzeSpendingHabits) and the monthly trends   *)
(* (MonthlyTrends.loadTrendsData).                                         *)
(*                                                                         *)
(* Numbers.  A JavaScript number is modelled as a record                   *)
(* [k, n, d]: k = "fin" is the exact rational n/d in lowest terms with     *)
(* d > 0; k = "nan", "inf", "ninf" are NaN, +Infinity and -Infinity.       *)
(* Arithmetic is exact: the rounding of IEEE-754 doubles is not modelled.  *)
(* A non-negative real that the code obtains through Math.sqrt is          *)
(* represented by its square (see Sqrt).                                   *)
(***************************************************************************)
EXTENDS Integers, Sequences, FiniteSets, TLC

\* ------------------------------------------------------------------------
\* Bounds of the model
\* ------------------------------------------------------------------------
MaxIncomes == 2
MaxExpenses == 3
MaxSeries == 3
MaxBudgets == 2

\* ------------------------------------------------------------------------
\* JavaScript numbers
\* ------------------------------------------------------------------------
Abs(x) == IF x < 0 THEN -x ELSE x

RECURSIVE GCD(_, _)
GCD(a, b) == IF b = 0 THEN a ELSE GCD(b, a % b)

NaN == [k |-> "nan", n |-> 0, d |-> 1]
PosInf == [k |-> "inf", n |-> 1, d |-> 1]
NegInf == [k |-> "ninf", n |-> -1, d |-> 1]

\* the finite number n/d (d # 0), in lowest terms
Rat(n, d) ==
  LET g == GCD(Abs(n), Abs(d))
      s == IF d < 0 THEN -1 ELSE 1
  IN  [k |-> "fin", n |-> (s * n) \div g, d |-> (s * d) \div g]

Num(i) == Rat(i, 1)

IsFinite(a) == a.k = "fin"
IsNaN(a) == a.k = "nan"
Sign(a) == IF a.n > 0 THEN 1 ELSE IF a.n < 0 THEN -1 ELSE 0

\* a + b
NAdd(a, b) ==
  IF IsNaN(a) \/ IsNaN(b) THEN NaN
  ELSE IF IsFinite(a) /\ IsFinite(b) THEN Rat(a.n * b.d + b.n * a.d, a.d * b.d)
  ELSE IF IsFinite(a) THEN b
  ELSE IF IsFinite(b) THEN a
  ELSE IF a = b THEN a ELSE NaN

NNeg(a) ==
  IF IsNaN(a) THEN NaN
  ELSE IF IsFinite(a) THEN Rat(-a.n, a.d)
  ELSE IF a = PosInf THEN NegInf ELSE PosInf

\* a - b
NSub(a, b) == NAdd(a, NNeg(b))

\* a * b
NMul(a, b) ==
  IF IsNaN(a) \/ IsNaN(b) THEN NaN
  ELSE IF IsFinite(a) /\ IsFinite(b) THEN Rat(a.n * b.n, a.d * b.d)
  ELSE IF Sign(a) * Sign(b) = 0 THEN NaN
  ELSE IF Sign(a) * Sign(b) > 0 THEN PosInf ELSE NegInf

\* a / b: a division by zero gives NaN (0/0) or an infinity
NDiv(a, b) ==
  IF IsNaN(a) \/ IsNaN(b) THEN NaN
  ELSE IF IsFinite(a) /\ IsFinite(b) THEN
         IF b.n # 0 THEN Rat(a.n * b.d, a.d * b.n)
         ELSE IF a.n = 0 THEN NaN
         ELSE IF a.n > 0 THEN PosInf ELSE NegInf
  ELSE IF IsFinite(b) THEN
         IF (Sign(a) > 0) = (b.n >= 0) THEN PosInf ELSE NegInf
  ELSE IF IsFinite(a) THEN Num(0)
  ELSE NaN

\* a < b (false when either is NaN)
NLt(a, b) ==
  IF IsNaN(a) \/ IsNaN(b) THEN FALSE
  ELSE IF IsFinite(a) /\ IsFinite(b) THEN a.n * b.d < b.n * a.d
  ELSE IF a = b THEN FALSE
  ELSE a = NegInf \/ b = PosInf

\* a > b
NGt(a, b) == NLt(b, a)

\* a || b on numbers: b when a is falsy (0 or NaN)
NOr(a, b) == IF IsNaN(a) \/ (IsFinite(a) /\ a.n = 0) THEN b ELSE a

\* ------------------------------------------------------------------------
\* Sequences and query results
\* ------------------------------------------------------------------------
Range(s) == {s[i] : i \in 1..Len(s)}

\* Array.prototype.reduce((sum, x) => sum + x, 0), left to right
RECURSIVE SumFrom(_, _, _)
SumFrom(s, i, acc) ==
  IF i > Len(s) THEN acc ELSE SumFrom(s, i + 1, NAdd(acc, s[i]))

NSum(s) == SumFrom(s, 1, Num(0))

\* all sequences over S of length at most n
SeqsUpTo(S, n) == UNION {[1..m -> S] : m \in 0..n}

\* the orders in which a query may return the rows of t, where keys[i] is the
\* ordering key of row t[i]: every arrangement of the rows with the keys
\* ascending (descending when desc); rows with equal keys come in any order.
\* OrderingsOf arranges the rows whose indices are in rest.
RECURSIVE OrderingsOf(_, _, _, _)
OrderingsOf(t, keys, desc, rest) ==
  IF rest = {} THEN {<<>>}
  ELSE
    LET first == {i \in rest : \A j \in rest :
                    IF desc THEN keys[i] >= keys[j] ELSE keys[i] <= keys[j]}
    IN  UNION {{<<t[i]>> \o o : o \in OrderingsOf(t, keys, desc, rest \ {i})} : i \in first}

Orderings(t, keys, desc) == OrderingsOf(t, keys, desc, 1..Len(t))

\* a collection is an unordered multiset of rows; it is kept as the sequence
\* of its rows sorted by rank, so that equal collections are equal values
IsCanonical(ranks) == \A i \in 1..(Len(ranks) - 1) : ranks[i] <= ranks[i + 1]

\* an expense_date is a day of a month; months are numbered from January of
\* BaseYear and are taken to have DaysInMonth days; new Date() is the middle
\* of month NowMonth
DaysInMonth == 30
BaseYear == 2024
NowMonth == 24
Today == [month |-> NowMonth, day |-> 15]
DateKey(date) == date.month * 100 + date.day

\* ------------------------------------------------------------------------
\* Income: the `income` collection and the views that normalise it
\* ------------------------------------------------------------------------
VARIABLES
  mounted,          \* the screen that is open: its components are mounted
  tzWest,           \* whether local time is behind UTC
  clock,            \* the month new Date() falls in when the dashboard loads
  incomeTable,      \* rows of the external `income` collection
  budgetTable,      \* rows of the external `monthly_budgets` collection
  expenseTable,     \* rows of the external `expenses` collection
  incomes,          \* Income page: useState<Income[]>
  incomeLoading,    \* Income page: loading
  incomeShown,      \* Income page: rendered monthly amounts and total
  incomeShownV0,    \* the same, rendered by the copy without inline editing
  overviewIncome,   \* IncomeOverview: useState<Income[]>
  overviewLoading,  \* IncomeOverview: loading
  overviewShown,    \* IncomeOverview: rendered monthly amounts and total
  flowRun,          \* BudgetFlowDashboard.loadBudgetFlow: position and locals
  flowData,         \* BudgetFlowDashboard: useState<BudgetFlowData>
  flowLoading,      \* BudgetFlowDashboard: loading
  habitsRun,        \* analyzeSpendingHabits: position, the rows last received, whether the run before received the same
  patterns,         \* SpendingHabitsAnalysis: useState<SpendingPattern[]>
  insights,         \* SpendingHabitsAnalysis: useState<SpendingInsight[]>
  habitsLoading,    \* SpendingHabitsAnalysis: loading
  totalSpending,    \* SpendingHabitsAnalysis: totalSpending
  selectedPeriod,   \* MonthlyTrends: selectedPeriod
  trendsRun,        \* loadTrendsData: position, the rows last received, whether the run before received the same
  monthlyData,      \* MonthlyTrends: useState<MonthlyData[]>
  billTrends,       \* MonthlyTrends: useState<BillTrend[]>
  categoryTrends,   \* MonthlyTrends: useState<CategoryTrend[]>
  trendsLoading,    \* MonthlyTrends: loading
  toasts,           \* the notifications raised by the step just taken (toast.error, toast.success)
  failures,         \* the store requests that resolved with an error in the step just taken
  stats,            \* Dashboard: useState stats
  statsRun,         \* Dashboard.loadDashboardStats: position and locals
  expenseForm,      \* ExpenseForm: the fields of the form and loading
  formBudgets,      \* ExpenseForm: useState<Budget[]>
  formRun,          \* ExpenseForm: the requests in flight
  formData,         \* Income page: formData
  editing,          \* Income page: editingId and editData
  incomeRun,        \* Income page: the requests in flight
  recentExpenses,   \* RecentExpenses: useState<Expense[]>
  recentLoading,    \* RecentExpenses: loading
  recentRun,        \* RecentExpenses: the requests in flight
  recentShown,      \* RecentExpenses: what the render produces
  localStorage,     \* the entries 'calabrese-budget-auth' and 'calabrese-budget-password'
  isAuthenticated,  \* AuthProvider: isAuthenticated
  authRun,          \* AuthProvider: whether the mount effect has run, and the last call of login
  account           \* AccountSettings: the dialog, its fields, error and success

authVars == <<localStorage, isAuthenticated, authRun, account>>
envVars == <<mounted, tzWest, clock, authVars>>
storeVars == <<incomeTable, budgetTable, expenseTable>>
incomeVars == <<incomes, incomeLoading, incomeShown, incomeShownV0>>
overviewVars == <<overviewIncome, overviewLoading, overviewShown>>
flowVars == <<flowRun, flowData, flowLoading>>
habitsVars == <<habitsRun, patterns, insights, habitsLoading, totalSpending>>
trendsVars == <<selectedPeriod, trendsRun, monthlyData, billTrends, categoryTrends, trendsLoading>>
statsVars == <<stats, statsRun>>
expenseFormVars == <<expenseForm, formBudgets, formRun>>
incomeFormVars == <<formData, editing, incomeRun>>
recentVars == <<recentExpenses, recentLoading, recentRun, recentShown>>
formVars == <<statsVars, expenseFormVars, incomeFormVars, recentVars>>

vars == <<envVars, storeVars, incomeVars, overviewVars, flowVars, habitsVars, trendsVars,
          toasts, failures, formVars>>

\* frequency tags offered by the form
FormFrequencies == {"weekly", "biweekly", "monthly", "annual"}
\* frequency tags a stored row may carry (the column is a free string)
FrequencyTags == FormFrequencies \cup {"quarterly", ""}
IncomeAmounts == {0, 100, 500}

IncomeRows == [amount : IncomeAmounts, frequency : FrequencyTags]

FrequencyRank(f) ==
  CASE f = "weekly" -> 1 [] f = "biweekly" -> 2 [] f = "monthly" -> 3
    [] f = "annual" -> 4 [] f = "quarterly" -> 5 [] OTHER -> 6

IncomeRank(r) == r.amount * 10 + FrequencyRank(r.frequency)

\* Number(x) of a numeric column value
Number(x) == Num(x)

\* a lookup of the multiplier by tag, which has no entry for an unknown tag
Income_calculateMonthlyAmount_lookup(amount, frequency) ==
  CASE frequency = "weekly" -> NMul(amount, Rat(433, 100))
    [] frequency = "biweekly" -> NMul(amount, Rat(217, 100))
    [] frequency = "annual" -> NDiv(amount, Num(12))
    [] frequency = "monthly" -> amount
    [] OTHER -> NaN

\* Income page
Income_calculateMonthlyAmount(amount, frequency) ==
  CASE frequency = "weekly" -> NMul(amount, Rat(433, 100))
    [] frequency = "biweekly" -> NMul(amount, Rat(217, 100))
    [] frequency = "annual" -> NDiv(amount, Num(12))
    [] OTHER -> amount

\* Income page, the copy without inline editing
IncomeV0_calculateMonthlyAmount(amount, frequency) ==
  CASE frequency = "weekly" -> NMul(amount, Rat(433, 100))
    [] frequency = "biweekly" -> NMul(amount, Rat(217, 100))
    [] frequency = "annual" -> NDiv(amount, Num(12))
    [] OTHER -> amount

\* the weekly multiplier taken as 52/12 instead of 4.33
IncomeOverview_calculateMonthlyAmount_weeks52(amount, frequency) ==
  CASE frequency = "weekly" -> NMul(amount, Rat(52, 12))
    [] frequency = "biweekly" -> NMul(amount, Rat(217, 100))
    [] frequency = "annual" -> NDiv(amount, Num(12))
    [] OTHER -> amount

\* IncomeOverview
IncomeOverview_calculateMonthlyAmount(amount, frequency) ==
  CASE frequency = "weekly" -> NMul(amount, Rat(433, 100))
    [] frequency = "biweekly" -> NMul(amount, Rat(217, 100))
    [] frequency = "annual" -> NDiv(amount, Num(12))
    [] OTHER -> amount

\* BudgetFlowDashboard
BudgetFlow_calculateMonthlyAmount(amount, frequency) ==
  CASE frequency = "weekly" -> NMul(amount, Rat(433, 100))
    [] frequency = "biweekly" -> NMul(amount, Rat(217, 100))
    [] frequency = "annual" -> NDiv(amount, Num(12))
    [] OTHER -> amount

\* Income page: incomes.reduce((sum, income) => sum + calculateMonthlyAmount(...), 0)
Income_totalMonthlyIncome(list) ==
  NSum([i \in 1..Len(list) |->
          Income_calculateMonthlyAmount(Number(list[i].amount), list[i].frequency)])

IncomeV0_totalMonthlyIncome(list) ==
  NSum([i \in 1..Len(list) |->
          IncomeV0_calculateMonthlyAmount(Number(list[i].amount), list[i].frequency)])

IncomeOverview_totalMonthlyIncome(list) ==
  NSum([i \in 1..Len(list) |->
          IncomeOverview_calculateMonthlyAmount(Number(list[i].amount), list[i].frequency)])

\* the stored amounts summed without normalising them
BudgetFlow_totalIncome_raw(list) ==
  NSum([i \in 1..Len(list) |-> Number(list[i].amount)])

\* loadBudgetFlow: (incomeData || []).reduce(...)
BudgetFlow_totalIncome(list) ==
  NSum([i \in 1..Len(list) |->
          BudgetFlow_calculateMonthlyAmount(Number(list[i].amount), list[i].frequency)])

\* what the Income page renders from its `incomes` state: the Monthly
\* Equivalent cell of each row and the Total Monthly Income card
Income_render(list) ==
  [monthly |-> [i \in 1..Len(list) |->
                  Income_calculateMonthlyAmount(Number(list[i].amount), list[i].frequency)],
   total |-> Income_totalMonthlyIncome(list)]

IncomeV0_render(list) ==
  [monthly |-> [i \in 1..Len(list) |->
                  IncomeV0_calculateMonthlyAmount(Number(list[i].amount), list[i].frequency)],
   total |-> IncomeV0_totalMonthlyIncome(list)]

\* what IncomeOverview renders from its `income` state
IncomeOverview_render(list) ==
  [monthly |-> [i \in 1..Len(list) |->
                  IncomeOverview_calculateMonthlyAmount(Number(list[i].amount), list[i].frequency)],
   total |-> IncomeOverview_totalMonthlyIncome(list)]

\* order('income_date'): the model carries no income_date, every row has the
\* same key and the rows come in any order
IncomeDateKeys(t) == [i \in 1..Len(t) |-> 0]
\* order('amount')
IncomeAmountKeys(t) == [i \in 1..Len(t) |-> t[i].amount]

\* ------------------------------------------------------------------------
\* Budgets and expenses as BudgetFlowDashboard reads them
\* ------------------------------------------------------------------------
\* a joined expense_categories row; absent is the null join
NoCategory == [absent |-> TRUE, name |-> "", icon |-> "", color |-> ""]
Category(name) == [absent |-> FALSE, name |-> name, icon |-> "i-" \o name, color |-> "c-" \o name]

FallbackIcon == "box"
FallbackColor == "#6B7280"
\* category?.icon || fallback
IconOf(category) == IF category.absent \/ category.icon = "" THEN FallbackIcon ELSE category.icon
ColorOf(category) == IF category.absent \/ category.color = "" THEN FallbackColor ELSE category.color

FlowIdle == [pc |-> "idle", incomeData |-> <<>>, totalIncome |-> Num(0), budgetData |-> <<>>,
             totalBudgeted |-> Num(0), pending |-> {}, spent |-> <<>>, failed |-> {}]

FlowDataInit == [totalIncome |-> Num(0), totalBudgeted |-> Num(0), totalSpent |-> Num(0),
                 unallocated |-> Num(0), remaining |-> Num(0), categories |-> <<>>]

\* .eq('budget_id', id): the expenses of one budget, in the order of t
RECURSIVE ExpensesOfBudgetFrom(_, _, _)
ExpensesOfBudgetFrom(t, id, i) ==
  IF i > Len(t) THEN <<>>
  ELSE IF t[i].budget_id = id THEN <<t[i]>> \o ExpensesOfBudgetFrom(t, id, i + 1)
  ELSE ExpensesOfBudgetFrom(t, id, i + 1)

ExpensesOfBudget(t, id) == ExpensesOfBudgetFrom(t, id, 1)

\* loadBudgetFlow on mount: the income query is issued
loadBudgetFlow_start ==
  /\ mounted = "Dashboard"
  /\ flowRun.pc = "idle"
  /\ flowRun' = [flowRun EXCEPT !.pc = "income"]
  /\ toasts' = {}
  /\ failures' = {}
  /\ UNCHANGED <<formVars, envVars, storeVars, incomeVars, overviewVars, flowData, flowLoading, habitsVars, trendsVars>>

\* the income query resolves (data is null when it fails); the budget query is issued
loadBudgetFlow_income ==
  /\ flowRun.pc = "income"
  /\ \E ok \in BOOLEAN :
       /\ failures' = IF ok THEN {} ELSE {"loadBudgetFlow.income"}
       /\ \E incomeData \in (IF ok THEN Orderings(incomeTable, IncomeDateKeys(incomeTable), TRUE) ELSE {<<>>}) :
            flowRun' = [flowRun EXCEPT !.pc = "budgets",
                                       !.incomeData = incomeData,
                                       !.totalIncome = BudgetFlow_totalIncome(incomeData),
                                       !.failed = IF ok THEN @ ELSE @ \cup {"income"}]
  /\ toasts' = {}
  /\ UNCHANGED <<formVars, envVars, storeVars, incomeVars, overviewVars, flowData, flowLoading, habitsVars, trendsVars>>

\* the budget query resolves; one expense query per budget row is issued
loadBudgetFlow_budgets ==
  /\ flowRun.pc = "budgets"
  /\ \E ok \in BOOLEAN :
       /\ failures' = IF ok THEN {} ELSE {"loadBudgetFlow.budgets"}
       /\ LET budgetData == IF ok THEN budgetTable ELSE <<>>
          IN  flowRun' = [flowRun EXCEPT
                !.pc = "expenses",
                !.budgetData = budgetData,
                !.totalBudgeted = NSum([i \in 1..Len(budgetData) |->
                                          Number(budgetData[i].budgeted_amount)]),
                !.pending = 1..Len(budgetData),
                !.spent = [i \in 1..Len(budgetData) |-> Num(0)],
                !.failed = IF ok THEN @ ELSE @ \cup {"budgets"}]
  /\ toasts' = {}
  /\ UNCHANGED <<formVars, envVars, storeVars, incomeVars, overviewVars, flowData, flowLoading, habitsVars, trendsVars>>

\* the expense query of budget row i resolves, in any order among the rows
loadBudgetFlow_expenses ==
  /\ flowRun.pc = "expenses"
  /\ \E i \in flowRun.pending :
       \E ok \in BOOLEAN :
         /\ failures' = IF ok THEN {} ELSE {"loadBudgetFlow.expenses"}
         /\ LET expenses == IF ok THEN ExpensesOfBudget(expenseTable, flowRun.budgetData[i].id)
                            ELSE <<>>
                spent == NOr(NSum([j \in 1..Len(expenses) |-> Number(expenses[j].amount)]), Num(0))
            IN  flowRun' = [flowRun EXCEPT !.pending = @ \ {i}, !.spent[i] = spent,
                                           !.failed = IF ok THEN @ ELSE @ \cup {"expenses"}]
  /\ toasts' = {}
  /\ UNCHANGED <<formVars, envVars, storeVars, incomeVars, overviewVars, flowData, flowLoading, habitsVars, trendsVars>>

\* Promise.all has resolved: the totals are published and loading ends
loadBudgetFlow_publish ==
  /\ flowRun.pc = "expenses"
  /\ flowRun.pending = {}
  /\ LET budgetExpenses == [i \in 1..Len(flowRun.budgetData) |->
                              [name |-> flowRun.budgetData[i].name,
                               budgeted |-> Number(flowRun.budgetData[i].budgeted_amount),
                               spent |-> flowRun.spent[i],
                               icon |-> IconOf(flowRun.budgetData[i].category),
                               color |-> ColorOf(flowRun.budgetData[i].category)]]
         totalSpent == NSum([i \in 1..Len(budgetExpenses) |-> budgetExpenses[i].spent])
     IN  flowData' = [totalIncome |-> flowRun.totalIncome,
                      totalBudgeted |-> flowRun.totalBudgeted,
                      totalSpent |-> totalSpent,
                      unallocated |-> NSub(flowRun.totalIncome, flowRun.totalBudgeted),
                      remaining |-> NSub(flowRun.totalBudgeted, totalSpent),
                      categories |-> budgetExpenses]
  /\ flowLoading' = FALSE
  /\ flowRun' = [flowRun EXCEPT !.pc = "done"]
  /\ toasts' = {}
  /\ failures' = {}
  /\ UNCHANGED <<formVars, envVars, storeVars, incomeVars, overviewVars, habitsVars, trendsVars>>

loadBudgetFlow ==
  \/ loadBudgetFlow_start
  \/ loadBudgetFlow_income
  \/ loadBudgetFlow_budgets
  \/ loadBudgetFlow_expenses
  \/ loadBudgetFlow_publish

\* ------------------------------------------------------------------------
\* The initial state of the views
\* ------------------------------------------------------------------------
HabitsIdle == [pc |-> "idle", expenses |-> <<>>, repeated |-> FALSE]

\* SpendingHabitsAnalysis before its first analysis
InitHabitsView ==
  /\ habitsRun = HabitsIdle
  /\ patterns = <<>>
  /\ insights = <<>>
  /\ habitsLoading = TRUE
  /\ totalSpending = Num(0)

TrendsIdle == [pc |-> "idle", expenses |-> <<>>, repeated |-> FALSE]

\* MonthlyTrends before its first load
InitTrendsView ==
  /\ selectedPeriod = "12"
  /\ trendsRun = TrendsIdle
  /\ monthlyData = <<>>
  /\ billTrends = <<>>
  /\ categoryTrends = <<>>
  /\ trendsLoading = TRUE

\* the Income page, IncomeOverview and BudgetFlowDashboard before their
\* first load
InitIncomeViews ==
  /\ incomes = <<>>
  /\ incomeLoading = TRUE
  /\ incomeShown = Income_render(<<>>)
  /\ incomeShownV0 = IncomeV0_render(<<>>)
  /\ overviewIncome = <<>>
  /\ overviewLoading = TRUE
  /\ overviewShown = IncomeOverview_render(<<>>)
  /\ flowRun = FlowIdle
  /\ flowData = FlowDataInit
  /\ flowLoading = TRUE

\* ------------------------------------------------------------------------
\* The income views
\* ------------------------------------------------------------------------
\* The forms and lists: Dashboard stats, ExpenseForm, the Income page forms
\* and RecentExpenses, before their first request resolves
\* ------------------------------------------------------------------------
\* Dashboard: useState<DashboardStats>
StatsInit == [totalBudget |-> Num(0), totalExpenses |-> Num(0), variance |-> Num(0),
              monthlyTrend |-> Num(0)]

\* loadDashboardStats has been called by the mount effect: its first query is
\* in flight; failed are the queries that resolved with an error
StatsMounted == [pc |-> "budgets", totalBudget |-> Num(0), totalExpenses |-> Num(0),
                 failed |-> {}, expenses |-> <<>>, prevExpenses |-> <<>>]

\* ExpenseForm: the useState values of the fields
ExpenseFormInit == [selectedCategory |-> "", selectedBudget |-> 0, expenseName |-> "",
                    expenseAmount |-> "", expenseDate |-> Today, expenseNotes |-> "",
                    loading |-> FALSE]

NoRow == [none |-> TRUE]

\* ExpenseForm after the mount effect: loadBudgets is in flight, no category
\* has been selected and nothing has been submitted
FormMounted == [budgets |-> "query", categoryBudgets |-> {}, submit |-> "idle", row |-> NoRow]

\* Income page: formData
FormDataInit == [name |-> "", amount |-> "", frequency |-> "monthly", income_date |-> Today]

\* Income page: editData when it is {}: the fields read as undefined
NoEditData == [name |-> "", amount |-> Num(0), frequency |-> ""]
NotEditing == [editingId |-> 0, editData |-> NoEditData]

IncomeIdle == [submit |-> "idle", row |-> NoRow, save |-> "idle", patch |-> NoRow,
               delete |-> 0]

\* RecentExpenses after the mount effect: loadExpenses is in flight
RecentMounted == [load |-> "query", delete |-> {}]

InitFormViews ==
  /\ toasts = {}
  /\ failures = {}
  /\ stats = StatsInit
  /\ statsRun = StatsMounted
  /\ expenseForm = ExpenseFormInit
  /\ formBudgets = <<>>
  /\ formRun = FormMounted
  /\ formData = FormDataInit
  /\ editing = NotEditing
  /\ incomeRun = IncomeIdle
  /\ recentExpenses = <<>>
  /\ recentLoading = TRUE
  /\ recentRun = RecentMounted
  /\ recentShown = [view |-> "loading", rows |-> <<>>]

\* localStorage.getItem of a key that has no entry
NoItem == "<null>"

\* AuthProvider before its mount effect, with login not yet called
NoLogin == [called |-> FALSE, username |-> "", password |-> "", stored |-> NoItem,
            returned |-> FALSE]
AuthUnmounted == [mounted |-> FALSE, login |-> NoLogin]

\* AccountSettings: the useState values; timers is whether a setTimeout of
\* handlePasswordChange is pending, verdict what the last submission read
NoVerdict == [submitted |-> FALSE, currentPassword |-> "", newPassword |-> "",
              confirmPassword |-> "", stored |-> NoItem]
AccountInit == [open |-> FALSE, currentPassword |-> "", newPassword |-> "",
                confirmPassword |-> "", error |-> "", success |-> FALSE, timers |-> FALSE,
                verdict |-> NoVerdict]

\* the views of the other screens are run with nobody signed in
InitAuthIdle ==
  /\ localStorage = [auth |-> NoItem, password |-> NoItem]
  /\ isAuthenticated = FALSE
  /\ authRun = AuthUnmounted
  /\ account = AccountInit

\* ------------------------------------------------------------------------
\* the budget and the expense the income views are run beside
SampleBudgets == <<[id |-> 1, name |-> "Food", budgeted_amount |-> 300, category |-> Category("Groceries")]>>
SampleExpenses == <<[name |-> "Market", amount |-> 50, expense_date |-> [month |-> 24, day |-> 5],
                     category |-> Category("Groceries"), budget_id |-> 1]>>

InitIncome ==
  /\ mounted \in {"Income", "Dashboard"}
  /\ incomeTable \in {t \in SeqsUpTo(IncomeRows, MaxIncomes) :
                       IsCanonical([i \in 1..Len(t) |-> IncomeRank(t[i])])}
  /\ budgetTable = SampleBudgets
  /\ expenseTable = SampleExpenses
  /\ tzWest = FALSE
  /\ clock = NowMonth
  /\ InitIncomeViews
  /\ InitHabitsView
  /\ InitTrendsView
  /\ InitFormViews
  /\ InitAuthIdle

\* Income.loadIncomes: select * order by income_date descending (the model
\* carries no income_date: the rows come in any order); a failed query
\* leaves the list as it was
loadIncomes ==
  /\ mounted = "Income"
  /\ \E ok \in BOOLEAN :
       /\ failures' = IF ok THEN {} ELSE {"loadIncomes"}
       /\ IF ok
          THEN \E data \in Orderings(incomeTable, IncomeDateKeys(incomeTable), TRUE) :
                 /\ incomes' = data
                 /\ incomeShown' = Income_render(data)
                 /\ incomeShownV0' = IncomeV0_render(data)
                 /\ toasts' = {}
          ELSE /\ UNCHANGED <<incomes, incomeShown, incomeShownV0>>
               /\ toasts' = {"Failed to load income sources"}
  /\ incomeLoading' = FALSE
  /\ UNCHANGED <<formVars, envVars, storeVars, overviewVars, flowVars, habitsVars, trendsVars>>

\* IncomeOverview.loadIncome: select ... order by amount descending
loadIncome ==
  /\ mounted = "Dashboard"
  /\ \E ok \in BOOLEAN :
       /\ failures' = IF ok THEN {} ELSE {"loadIncome"}
       /\ IF ok
          THEN \E data \in Orderings(incomeTable, IncomeAmountKeys(incomeTable), TRUE) :
                 /\ overviewIncome' = data
                 /\ overviewShown' = IncomeOverview_render(data)
          ELSE UNCHANGED <<overviewIncome, overviewShown>>
  /\ overviewLoading' = FALSE
  /\ toasts' = {}
  /\ UNCHANGED <<formVars, envVars, storeVars, incomeVars, flowVars, habitsVars, trendsVars>>

NextIncome == loadIncomes \/ loadIncome \/ loadBudgetFlow

SpecIncome == InitIncome /\ [][NextIncome]_vars

\* ------------------------------------------------------------------------
\* Claims about the monthly normaliser
\* ------------------------------------------------------------------------
RECURSIVE ISumFrom(_, _)
ISumFrom(s, i) == IF i > Len(s) THEN 0 ELSE s[i] + ISumFrom(s, i + 1)
\* the sum of a sequence of integers
ISum(s) == ISumFrom(s, 1)

\* the multiplier table of the data model: weekly x4.33, biweekly x2.17,
\* annual /12, monthly x1
MonthlyTable(a, f) ==
  CASE f = "weekly" -> Rat(a * 433, 100)
    [] f = "biweekly" -> Rat(a * 217, 100)
    [] f = "annual" -> Rat(a, 12)
    [] f = "monthly" -> Rat(a, 1)

\* three hundred times the monthly equivalent of one unit, unknown tags
\* counting as monthly
Per300(f) ==
  CASE f = "weekly" -> 1299 [] f = "biweekly" -> 651 [] f = "annual" -> 25 [] OTHER -> 300

\* the sum of the monthly equivalents of a list of income records
ExpectedMonthlyTotal(list) ==
  Rat(ISum([i \in 1..Len(list) |-> list[i].amount * Per300(list[i].frequency)]), 300)

\* C1: for every amount a >= 0 and every frequency of the form,
\* calculateMonthlyAmount(a, f) is a*4.33 (weekly), a*2.17 (biweekly), a/12
\* (annual) or a (monthly), 100 weekly giving 433, and the copies of the
\* function (Income page, IncomeOverview, BudgetFlowDashboard) give the same
\* value: every monthly amount a view shows is the table's value for its row.
C1_MonthlyAmountTable ==
  /\ \A i \in 1..Len(incomes) :
       incomes[i].frequency \in FormFrequencies =>
         /\ incomeShown.monthly[i] = MonthlyTable(incomes[i].amount, incomes[i].frequency)
         /\ incomeShownV0.monthly[i] = MonthlyTable(incomes[i].amount, incomes[i].frequency)
         /\ (incomes[i].amount = 100 /\ incomes[i].frequency = "weekly" =>
               incomeShown.monthly[i] = Num(433))
  /\ \A i \in 1..Len(overviewIncome) :
       overviewIncome[i].frequency \in FormFrequencies =>
         overviewShown.monthly[i] =
           MonthlyTable(overviewIncome[i].amount, overviewIncome[i].frequency)
  /\ (Len(flowRun.incomeData) = 1 /\ flowRun.incomeData[1].frequency \in FormFrequencies) =>
       flowRun.totalIncome =
         MonthlyTable(flowRun.incomeData[1].amount, flowRun.incomeData[1].frequency)

\* the dashboard shows 433 a month for the single income of 100 a week, in
\* IncomeOverview and in the published budget flow
C1_Witness ==
  /\ overviewIncome = <<[amount |-> 100, frequency |-> "weekly"]>>
  /\ overviewShown.monthly = <<Num(433)>>
  /\ flowRun.pc = "done"
  /\ flowData.totalIncome = Num(433)

\* C2: for a frequency tag other than weekly, biweekly and annual (unknown
\* and empty tags included) calculateMonthlyAmount returns the amount
\* unchanged, a finite number and no error value.
C2_UnknownFrequencyIsMonthly ==
  /\ \A i \in 1..Len(incomes) :
       incomes[i].frequency \notin {"weekly", "biweekly", "annual"} =>
         /\ incomeShown.monthly[i] = Num(incomes[i].amount)
         /\ incomeShownV0.monthly[i] = Num(incomes[i].amount)
  /\ \A i \in 1..Len(overviewIncome) :
       overviewIncome[i].frequency \notin {"weekly", "biweekly", "annual"} =>
         overviewShown.monthly[i] = Num(overviewIncome[i].amount)

\* the Income page lists an income with an unknown tag and one with an
\* empty tag
C2_Witness ==
  /\ \E i \in 1..Len(incomes) :
       incomes[i] = [amount |-> 500, frequency |-> "quarterly"] /\ incomeShown.monthly[i] = Num(500)
  /\ \E i \in 1..Len(incomes) :
       incomes[i] = [amount |-> 100, frequency |-> ""] /\ incomeShown.monthly[i] = Num(100)

\* C3: the total monthly income shown for a list of income records is the
\* sum of their monthly equivalents: 0 for the empty list, 2165 for the
\* single record {500, weekly}; in the Income page, IncomeOverview and
\* loadBudgetFlow.
C3_TotalMonthlyIncome ==
  /\ incomeShown.total = ExpectedMonthlyTotal(incomes)
  /\ incomeShownV0.total = ExpectedMonthlyTotal(incomes)
  /\ overviewShown.total = ExpectedMonthlyTotal(overviewIncome)
  /\ flowRun.totalIncome = ExpectedMonthlyTotal(flowRun.incomeData)
  /\ (flowRun.pc = "done" => flowData.totalIncome = ExpectedMonthlyTotal(flowRun.incomeData))
  /\ (incomes = <<>> => incomeShown.total = Num(0))
  /\ (incomes = <<[amount |-> 500, frequency |-> "weekly"]>> => incomeShown.total = Num(2165))
  /\ (overviewIncome = <<[amount |-> 500, frequency |-> "weekly"]>> =>
        overviewShown.total = Num(2165))

\* the budget flow has published the total of two incomes of different
\* frequencies, and IncomeOverview shows the same total
C3_Witness ==
  /\ flowRun.pc = "done"
  /\ Len(flowRun.incomeData) = 2
  /\ flowRun.incomeData[1].frequency # flowRun.incomeData[2].frequency
  /\ flowData.totalIncome = Rat(2165 * 12 + 100, 12)
  /\ overviewShown.total = flowData.totalIncome

\* ------------------------------------------------------------------------
\* Expenses as the analysis views read them
\* ------------------------------------------------------------------------
\* new Date() moved back by monthsBack months
MonthsAgo(monthsBack) == [month |-> Today.month - monthsBack, day |-> Today.day]

\* .gte('expense_date', start): the rows of t dated on or after start
RECURSIVE SinceFrom(_, _, _)
SinceFrom(t, start, i) ==
  IF i > Len(t) THEN <<>>
  ELSE IF DateKey(t[i].expense_date) >= DateKey(start)
       THEN <<t[i]>> \o SinceFrom(t, start, i + 1)
       ELSE SinceFrom(t, start, i + 1)

Since(t, start) == SinceFrom(t, start, 1)

\* threeMonthsAgo.setMonth(threeMonthsAgo.getMonth() - 3)
HabitsMonthsBack == 3

\* new Date('YYYY-MM-DD') is midnight UTC; getFullYear, getMonth, getDate and
\* getDay read it in local time, which is the day before when local time is
\* behind UTC
LocalDate(date, west) ==
  IF ~west THEN date
  ELSE IF date.day = 1 THEN [month |-> date.month - 1, day |-> DaysInMonth]
  ELSE [month |-> date.month, day |-> date.day - 1]

\* new Date(expense_date).getDate()
GetDate(date, west) == LocalDate(date, west).day
\* new Date(expense_date).getDay(): 0 (Sunday) to 6
GetDay(date, west) ==
  (LocalDate(date, west).month * DaysInMonth + LocalDate(date, west).day) % 7

\* order('expense_date')
ExpenseDateKeys(t) == [i \in 1..Len(t) |-> DateKey(t[i].expense_date)]

\* Array.prototype.slice(start, end)
Slice(s, start, end) ==
  LET n == Len(s)
      from == IF start < 0 THEN (IF n + start < 0 THEN 0 ELSE n + start)
              ELSE (IF start > n THEN n ELSE start)
      to == IF end < 0 THEN (IF n + end < 0 THEN 0 ELSE n + end)
            ELSE (IF end > n THEN n ELSE end)
  IN  IF to <= from THEN <<>> ELSE [i \in 1..(to - from) |-> s[from + i]]

\* Array.prototype.slice(start)
SliceFrom(s, start) == Slice(s, start, Len(s))

\* Number.prototype.toFixed(digits), as the number the text shows: the nearest
\* multiple of 10^-digits, halves away from zero
Pow10(k) == IF k = 0 THEN 1 ELSE IF k = 1 THEN 10 ELSE 100
ToFixed(x, digits) ==
  IF ~IsFinite(x) THEN x
  ELSE LET m == Pow10(digits)
           q == (2 * Abs(x.n) * m + x.d) \div (2 * x.d)
       IN  Rat((IF x.n < 0 THEN -1 ELSE 1) * q, m)

\* Math.abs
NAbs(x) ==
  IF IsNaN(x) THEN NaN ELSE IF IsFinite(x) THEN Rat(Abs(x.n), x.d) ELSE PosInf

\* the sum carried on from the total of the run before
SumAmounts_carried(list) ==
  NAdd(totalSpending, NSum([i \in 1..Len(list) |-> Number(list[i].amount)]))

\* the amounts of a list of expenses summed by reduce
SumAmounts(list) == NSum([i \in 1..Len(list) |-> Number(list[i].amount)])

\* the name without the fallback: expense.expense_categories?.name
CategoryNameOf_noFallback(expense) ==
  IF expense.category.absent THEN "" ELSE expense.category.name

\* expense.expense_categories?.name || 'Uncategorized'
CategoryNameOf(expense) ==
  IF expense.category.absent \/ expense.category.name = "" THEN "Uncategorized"
  ELSE expense.category.name

\* ------------------------------------------------------------------------
\* SpendingHabitsAnalysis.analyzeSpendingHabits
\* ------------------------------------------------------------------------
\* the index of the entry for key in a Map kept in insertion order, 0 if none
RECURSIVE IndexOfKey(_, _, _)
IndexOfKey(map, key, i) ==
  IF i > Len(map) THEN 0 ELSE IF map[i].key = key THEN i ELSE IndexOfKey(map, key, i + 1)

\* expenses.forEach: the categoryMap after the rows from i on have been added
RECURSIVE Habits_categoryMapFrom(_, _, _)
Habits_categoryMapFrom(expenses, i, map) ==
  IF i > Len(expenses) THEN map
  ELSE
    LET expense == expenses[i]
        categoryName == CategoryNameOf(expense)
        at == IndexOfKey(map, categoryName, 1)
        withKey == IF at = 0
                   THEN Append(map, [key |-> categoryName, expenses |-> <<>>,
                                     category |-> expense.category])
                   ELSE map
        k == IF at = 0 THEN Len(withKey) ELSE at
    IN  Habits_categoryMapFrom(expenses, i + 1,
          [withKey EXCEPT ![k].expenses = Append(@, expense)])

\* a grouping that leaves out the expenses without a category
Habits_categoryMap_categorized(expenses) ==
  Habits_categoryMapFrom(SelectSeq(expenses, LAMBDA e : ~e.category.absent), 1, <<>>)

\* a grouping that starts from a group made before any expense is seen
Habits_categoryMap_eager(expenses) ==
  Habits_categoryMapFrom(expenses, 1,
    <<[key |-> "Other", expenses |-> <<>>, category |-> NoCategory]>>)

Habits_categoryMap(expenses) == Habits_categoryMapFrom(expenses, 1, <<>>)

\* the number of elements of list whose local day of the month is in lo..hi
CountDays(list, lo, hi, west) ==
  Cardinality({i \in 1..Len(list) :
                 GetDate(list[i].expense_date, west) >= lo
                 /\ GetDate(list[i].expense_date, west) <= hi})

Habits_timeOfMonthPattern(categoryExpenses, west) ==
  LET earlyMonth == CountDays(categoryExpenses, 0, 10, west)
      midMonth == CountDays(categoryExpenses, 11, 20, west)
      lateMonth == CountDays(categoryExpenses, 21, DaysInMonth + 1, west)
  IN  IF earlyMonth > midMonth /\ earlyMonth > lateMonth THEN "early"
      ELSE IF midMonth > earlyMonth /\ midMonth > lateMonth THEN "mid"
      ELSE IF lateMonth > earlyMonth /\ lateMonth > midMonth THEN "late"
      ELSE "consistent"

Habits_dayOfWeekPattern(categoryExpenses, west) ==
  [day \in 0..6 |->
     Cardinality({i \in 1..Len(categoryExpenses) :
                    GetDay(categoryExpenses[i].expense_date, west) = day})]

\* the first halfPoint elements taken as the first half: slice(0, halfPoint)
Habits_firstHalf_newest(categoryExpenses) ==
  Slice(categoryExpenses, 0, Len(categoryExpenses) \div 2)

\* the first half of the trend: slice(-halfPoint)
Habits_firstHalf(categoryExpenses) ==
  SliceFrom(categoryExpenses, -(Len(categoryExpenses) \div 2))

\* the second half of the trend: slice(0, length - halfPoint)
Habits_secondHalf(categoryExpenses) ==
  Slice(categoryExpenses, 0, Len(categoryExpenses) - (Len(categoryExpenses) \div 2))

\* sum / length || 0
Habits_halfAvg(half) == NOr(NDiv(SumAmounts(half), Num(Len(half))), Num(0))

\* the percentage change without the guard on the first half's average
TrendOf_unguarded(firstHalfAvg, secondHalfAvg) ==
  NMul(NDiv(NSub(secondHalfAvg, firstHalfAvg), firstHalfAvg), Num(100))

\* a rise from nothing counted as a rise of 100%
TrendOf_fromZero(firstHalfAvg, secondHalfAvg) ==
  IF NGt(firstHalfAvg, Num(0))
  THEN NMul(NDiv(NSub(secondHalfAvg, firstHalfAvg), firstHalfAvg), Num(100))
  ELSE IF NGt(secondHalfAvg, Num(0)) THEN Num(100) ELSE Num(0)

\* firstHalfAvg > 0 ? ((secondHalfAvg - firstHalfAvg) / firstHalfAvg) * 100 : 0
TrendOf(firstHalfAvg, secondHalfAvg) ==
  IF NGt(firstHalfAvg, Num(0))
  THEN NMul(NDiv(NSub(secondHalfAvg, firstHalfAvg), firstHalfAvg), Num(100))
  ELSE Num(0)

Habits_trend(categoryExpenses) ==
  TrendOf(Habits_halfAvg(Habits_firstHalf(categoryExpenses)),
          Habits_halfAvg(Habits_secondHalf(categoryExpenses)))

\* the SpendingPattern pushed for one entry of the categoryMap
Habits_pattern(entry, west) ==
  LET totalCategorySpent == SumAmounts(entry.expenses)
  IN  [category |-> entry.key,
       icon |-> IconOf(entry.category),
       color |-> ColorOf(entry.category),
       totalSpent |-> totalCategorySpent,
       avgPerTransaction |-> NDiv(totalCategorySpent, Num(Len(entry.expenses))),
       frequency |-> Len(entry.expenses),
       trend |-> Habits_trend(entry.expenses),
       dayOfWeekPattern |-> Habits_dayOfWeekPattern(entry.expenses, west),
       timeOfMonthPattern |-> Habits_timeOfMonthPattern(entry.expenses, west)]

\* an insight: its type, which rule made it, its category, its amount (if
\* any) and the number its description shows
Insight(type, rule, category, hasAmount, amount, shown) ==
  [type |-> type, rule |-> rule, category |-> category,
   hasAmount |-> hasAmount, amount |-> amount, shown |-> shown]

HighSpendingShare == Rat(3, 10)
IncreasingTrend == 50
ReducedTrend == -20
WindowDays == 90

\* a threshold that the share may also equal
Habits_highSpendingInsights_atLeast(pattern, total) ==
  IF ~NLt(pattern.totalSpent, NMul(total, HighSpendingShare))
  THEN <<Insight("warning", "high", pattern.category, TRUE, pattern.totalSpent,
                 ToFixed(NMul(NDiv(pattern.totalSpent, total), Num(100)), 1))>>
  ELSE <<>>

\* if (totalCategorySpent > total * 0.3) generatedInsights.push(...)
Habits_highSpendingInsights(pattern, total) ==
  IF NGt(pattern.totalSpent, NMul(total, HighSpendingShare))
  THEN <<Insight("warning", "high", pattern.category, TRUE, pattern.totalSpent,
                 ToFixed(NMul(NDiv(pattern.totalSpent, total), Num(100)), 1))>>
  ELSE <<>>

\* thresholds that the trend may also equal
Habits_trendInsights_atLeast(pattern) ==
  IF ~NLt(pattern.trend, Num(IncreasingTrend))
  THEN <<Insight("warning", "increasing", pattern.category, FALSE, Num(0),
                 ToFixed(pattern.trend, 1))>>
  ELSE IF ~NGt(pattern.trend, Num(ReducedTrend))
  THEN <<Insight("success", "reduced", pattern.category, FALSE, Num(0),
                 ToFixed(NAbs(pattern.trend), 1))>>
  ELSE <<>>

\* if (trend > 50) push(...) else if (trend < -20) push(...)
Habits_trendInsights(pattern) ==
  IF NGt(pattern.trend, Num(IncreasingTrend))
  THEN <<Insight("warning", "increasing", pattern.category, FALSE, Num(0),
                 ToFixed(pattern.trend, 1))>>
  ELSE IF NLt(pattern.trend, Num(ReducedTrend))
  THEN <<Insight("success", "reduced", pattern.category, FALSE, Num(0),
                 ToFixed(NAbs(pattern.trend), 1))>>
  ELSE <<>>

\* the insights pushed for one pattern
Habits_categoryInsights(pattern, total) ==
  Habits_highSpendingInsights(pattern, total) \o Habits_trendInsights(pattern)

RECURSIVE Habits_insightsFrom(_, _, _)
Habits_insightsFrom(pats, total, i) ==
  IF i > Len(pats) THEN <<>>
  ELSE Habits_categoryInsights(pats[i], total) \o Habits_insightsFrom(pats, total, i + 1)

\* Array.prototype.sort((a, b) => b.totalSpent - a.totalSpent): a stable sort,
\* here by insertion after every element that is not smaller
RECURSIVE SortByTotalSpentFrom(_, _, _)
SortByTotalSpentFrom(list, i, sorted) ==
  IF i > Len(list) THEN sorted
  ELSE
    LET x == list[i]
        smaller == {j \in 1..Len(sorted) : NLt(sorted[j].totalSpent, x.totalSpent)}
        at == IF smaller = {} THEN Len(sorted) + 1
              ELSE CHOOSE j \in smaller : \A k \in smaller : j <= k
    IN  SortByTotalSpentFrom(list, i + 1,
          SubSeq(sorted, 1, at - 1) \o <<x>> \o SubSeq(sorted, at, Len(sorted)))

\* the sort with the comparator a.totalSpent - b.totalSpent
SortByTotalSpent_ascending(list) ==
  LET sorted == SortByTotalSpentFrom(list, 1, <<>>)
  IN  [i \in 1..Len(sorted) |-> sorted[Len(sorted) + 1 - i]]

\* analysisPatterns.sort((a, b) => b.totalSpent - a.totalSpent)
SortByTotalSpent(list) == SortByTotalSpentFrom(list, 1, <<>>)

StartTrackingInsight == Insight("info", "start", "", FALSE, Num(0), Num(0))

\* the daily average pushed to the end of the insights
Habits_analysis_push(expenses, west) ==
  LET total == SumAmounts(expenses)
      categoryMap == Habits_categoryMap(expenses)
      analysisPatterns == [i \in 1..Len(categoryMap) |-> Habits_pattern(categoryMap[i], west)]
      generatedInsights == Habits_insightsFrom(analysisPatterns, total, 1)
      avgDaily == NDiv(total, Num(WindowDays))
  IN  [total |-> total,
       patterns |-> SortByTotalSpent(analysisPatterns),
       insights |-> IF NGt(total, Num(0))
                    THEN generatedInsights
                         \o <<Insight("info", "daily", "", TRUE, avgDaily, ToFixed(avgDaily, 2))>>
                    ELSE generatedInsights]

\* the result of the analysis of a non-empty query result
Habits_analysis(expenses, west) ==
  LET total == SumAmounts(expenses)
      categoryMap == Habits_categoryMap(expenses)
      analysisPatterns == [i \in 1..Len(categoryMap) |-> Habits_pattern(categoryMap[i], west)]
      generatedInsights == Habits_insightsFrom(analysisPatterns, total, 1)
      avgDaily == NDiv(total, Num(WindowDays))
  IN  [total |-> total,
       patterns |-> SortByTotalSpent(analysisPatterns),
       insights |-> IF NGt(total, Num(0))
                    THEN <<Insight("info", "daily", "", TRUE, avgDaily, ToFixed(avgDaily, 2))>>
                         \o generatedInsights
                    ELSE generatedInsights]

\* analyzeSpendingHabits is called: loading is set and the query is issued
analyzeSpendingHabits_start ==
  /\ mounted = "Habits"
  /\ habitsRun.pc # "query"
  /\ habitsRun' = [habitsRun EXCEPT !.pc = "query", !.repeated = FALSE]
  /\ habitsLoading' = TRUE
  /\ toasts' = {}
  /\ failures' = {}
  /\ UNCHANGED <<formVars, envVars, storeVars, incomeVars, overviewVars, flowVars, trendsVars, patterns, insights, totalSpending>>

\* the query resolves with an error: it is logged and loading ends
analyzeSpendingHabits_error ==
  /\ habitsRun.pc = "query"
  /\ habitsRun' = [habitsRun EXCEPT !.pc = "done"]
  /\ habitsLoading' = FALSE
  /\ toasts' = {}
  /\ failures' = {"analyzeSpendingHabits"}
  /\ UNCHANGED <<formVars, envVars, storeVars, incomeVars, overviewVars, flowVars, trendsVars, patterns, insights, totalSpending>>

\* the query resolves with no rows
analyzeSpendingHabits_empty ==
  /\ habitsRun.pc = "query"
  /\ Since(expenseTable, MonthsAgo(HabitsMonthsBack)) = <<>>
  /\ habitsRun' = [pc |-> "done", expenses |-> <<>>, repeated |-> FALSE]
  /\ insights' = <<StartTrackingInsight>>
  /\ habitsLoading' = FALSE
  /\ toasts' = {}
  /\ failures' = {}
  /\ UNCHANGED <<formVars, envVars, storeVars, incomeVars, overviewVars, flowVars, trendsVars, patterns, totalSpending>>

\* the query resolves with rows, newest first: they are analysed and the
\* patterns and insights are published
analyzeSpendingHabits_analyse ==
  /\ habitsRun.pc = "query"
  /\ LET rows == Since(expenseTable, MonthsAgo(HabitsMonthsBack))
     IN  /\ rows # <<>>
         /\ \E expenses \in Orderings(rows, ExpenseDateKeys(rows), TRUE) :
              LET result == Habits_analysis(expenses, tzWest)
              IN  /\ habitsRun' = [pc |-> "done", expenses |-> expenses,
                                  repeated |-> (habitsRun.expenses = expenses)]
                  /\ totalSpending' = result.total
                  /\ patterns' = result.patterns
                  /\ insights' = result.insights
  /\ habitsLoading' = FALSE
  /\ toasts' = {}
  /\ failures' = {}
  /\ UNCHANGED <<formVars, envVars, storeVars, incomeVars, overviewVars, flowVars, trendsVars>>

analyzeSpendingHabits ==
  \/ analyzeSpendingHabits_start
  \/ analyzeSpendingHabits_error
  \/ analyzeSpendingHabits_empty
  \/ analyzeSpendingHabits_analyse

\* ------------------------------------------------------------------------
\* MonthlyTrends.loadTrendsData
\* ------------------------------------------------------------------------
\* date.getMonth() + 1 and date.getFullYear() of a month of the model
MonthNumOf(m) == ((m - 1) % 12) + 1
YearOf(m) == BaseYear + ((m - 1) \div 12)

ShortMonthNames == <<"Jan", "Feb", "Mar", "Apr", "May", "Jun",
                     "Jul", "Aug", "Sep", "Oct", "Nov", "Dec">>

\* toLocaleDateString('en-US', { month: 'short', year: '2-digit' }): the short
\* name of the month and the last two digits of the year
MonthLabel(m) == [name |-> ShortMonthNames[MonthNumOf(m)], yy |-> YearOf(m) % 100]

\* the place of a short month name in alphabetical order
ShortNameRank(name) ==
  CASE name = "Apr" -> 1 [] name = "Aug" -> 2 [] name = "Dec" -> 3 [] name = "Feb" -> 4
    [] name = "Jan" -> 5 [] name = "Jul" -> 6 [] name = "Jun" -> 7 [] name = "Mar" -> 8
    [] name = "May" -> 9 [] name = "Nov" -> 10 [] name = "Oct" -> 11 [] name = "Sep" -> 12

\* a.month.localeCompare(b.month) orders labels by this key
LabelRank(label) == ShortNameRank(label.name) * 100 + label.yy

\* parseInt(selectedPeriod)
ParseInt(text) ==
  CASE text = "3" -> 3 [] text = "6" -> 6 [] text = "12" -> 12 [] text = "18" -> 18

\* the texts between the hyphens of a name
HyphenParts(text) ==
  IF text = "Co-op" THEN <<"Co", "op">>
  ELSE IF text = "op-Gas" THEN <<"op", "Gas">>
  ELSE <<text>>

BillNames == {"Item", "Rent", "Power", "Co-op", "Co"}
CategoryNames == {"Groceries", "Gas", "Housing", "Uncategorized", "op-Gas"}

\* `${expense.name}-${categoryName}`
BillKey(name, categoryName) == name \o "-" \o categoryName

\* a key that keeps the name and the category apart
SplitHyphen_structured(billName) ==
  LET pair == CHOOSE nc \in BillNames \X CategoryNames : BillKey(nc[1], nc[2]) = billName
  IN  <<pair[1], pair[2]>>

\* billName.split('-')
SplitHyphen(billName) ==
  LET pair == CHOOSE nc \in BillNames \X CategoryNames : BillKey(nc[1], nc[2]) = billName
  IN  HyphenParts(pair[1]) \o HyphenParts(pair[2])

\* amounts.find(a => a.month === monthLabel), then += or push
AddToMonth(amounts, monthLabel, amount) ==
  LET found == {i \in 1..Len(amounts) : amounts[i].month = monthLabel}
  IN  IF found # {}
      THEN LET k == CHOOSE i \in found : \A j \in found : i <= j
           IN  [amounts EXCEPT ![k].amount = NAdd(@, amount)]
      ELSE Append(amounts, [month |-> monthLabel, amount |-> amount])

\* map.get(key).amounts after the amount is added, the entry made if absent
AddToSeries(map, key, category, monthLabel, amount) ==
  LET at == IndexOfKey(map, key, 1)
      withKey == IF at = 0
                 THEN Append(map, [key |-> key, amounts |-> <<>>, category |-> category])
                 ELSE map
      k == IF at = 0 THEN Len(withKey) ELSE at
  IN  [withKey EXCEPT ![k].amounts = AddToMonth(@, monthLabel, amount)]

\* monthData.categories[categoryName] = (monthData.categories[categoryName] || 0) + amount
AddToCategories(categories, categoryName, amount) ==
  LET at == IndexOfKey(categories, categoryName, 1)
  IN  IF at = 0
      THEN Append(categories, [key |-> categoryName, amount |-> NAdd(Num(0), amount)])
      ELSE [categories EXCEPT ![at].amount = NAdd(NOr(@, Num(0)), amount)]

\* the monthlyMap after one expense of local month m
AddToMonthly(map, m, categoryName, amount) ==
  LET at == IndexOfKey(map, m, 1)
      withKey == IF at = 0
                 THEN Append(map, [key |-> m, month |-> MonthLabel(m), year |-> YearOf(m),
                                   monthNum |-> MonthNumOf(m), total |-> Num(0),
                                   categories |-> <<>>])
                 ELSE map
      k == IF at = 0 THEN Len(withKey) ELSE at
  IN  [withKey EXCEPT ![k].total = NAdd(@, amount),
                      ![k].categories = AddToCategories(@, categoryName, amount)]

\* expenses.forEach: the three maps after the rows from i on have been added
RECURSIVE Trends_mapsFrom(_, _, _, _)
Trends_mapsFrom(expenses, west, i, maps) ==
  IF i > Len(expenses) THEN maps
  ELSE
    LET expense == expenses[i]
        m == LocalDate(expense.expense_date, west).month
        amount == Number(expense.amount)
        categoryName == CategoryNameOf(expense)
        billKey == BillKey(expense.name, categoryName)
    IN  Trends_mapsFrom(expenses, west, i + 1,
          [monthlyMap |-> AddToMonthly(maps.monthlyMap, m, categoryName, amount),
           billMap |-> AddToSeries(maps.billMap, billKey, expense.category,
                                   MonthLabel(m), amount),
           categoryMap |-> AddToSeries(maps.categoryMap, categoryName, expense.category,
                                       MonthLabel(m), amount)])

Trends_maps(expenses, west) ==
  Trends_mapsFrom(expenses, west, 1, [monthlyMap |-> <<>>, billMap |-> <<>>, categoryMap |-> <<>>])

\* the amounts of a series summed by reduce
SumSeries(amounts) == NSum([i \in 1..Len(amounts) |-> amounts[i].amount])

\* a stable sort by insertion: each element goes before the first one whose
\* rank is greater; ranks[i] is the rank of list[i]
RECURSIVE SortByRankFrom(_, _, _, _, _)
SortByRankFrom(list, ranks, i, sorted, sortedRanks) ==
  IF i > Len(list) THEN sorted
  ELSE
    LET greater == {j \in 1..Len(sorted) : sortedRanks[j] > ranks[i]}
        at == IF greater = {} THEN Len(sorted) + 1
              ELSE CHOOSE j \in greater : \A k \in greater : j <= k
    IN  SortByRankFrom(list, ranks, i + 1,
          SubSeq(sorted, 1, at - 1) \o <<list[i]>> \o SubSeq(sorted, at, Len(sorted)),
          SubSeq(sortedRanks, 1, at - 1) \o <<ranks[i]>> \o SubSeq(sortedRanks, at, Len(sorted)))

\* Array.prototype.sort by an integer rank, ascending
SortByRank(list, ranks) == SortByRankFrom(list, ranks, 1, <<>>, <<>>)

\* amounts.sort((a, b) => a.month.localeCompare(b.month))
SortByMonthLabel(amounts) ==
  SortByRank(amounts, [i \in 1..Len(amounts) |-> LabelRank(amounts[i].month)])

\* Array.from(monthlyMap.values()).sort by year * 12 + monthNum
Trends_monthlyDataArray(monthlyMap) ==
  SortByRank([i \in 1..Len(monthlyMap) |->
                [month |-> monthlyMap[i].month, year |-> monthlyMap[i].year,
                 monthNum |-> monthlyMap[i].monthNum, total |-> monthlyMap[i].total,
                 categories |-> monthlyMap[i].categories]],
             [i \in 1..Len(monthlyMap) |-> monthlyMap[i].year * 12 + monthlyMap[i].monthNum])

\* Math.sqrt(x): the non-negative number whose square is x
Sqrt(x) == [square |-> x]
\* root / a for a > 0
RootDiv(root, a) == [square |-> NDiv(root.square, NMul(a, a))]
\* root < r for r >= 0
RootLt(root, r) == NLt(root.square, NMul(r, r))

RecurringThreshold == Rat(3, 10)
RecurringMinMonths == 3
BillMinMonths == 2

\* amounts.reduce((sum, a) => sum + Math.pow(a.amount - avgAmount, 2), 0) / amounts.length
Trends_variance(amounts, avgAmount) ==
  NDiv(NSum([i \in 1..Len(amounts) |->
               NMul(NSub(amounts[i].amount, avgAmount), NSub(amounts[i].amount, avgAmount))]),
       Num(Len(amounts)))

\* (stdDev / avgAmount) || 1 within the guard: a coefficient of 0 replaced by 1
Trends_coefficientOfVariation_falsy(amounts, avgAmount) ==
  IF NGt(avgAmount, Num(0)) /\ Trends_variance(amounts, avgAmount) # Num(0)
  THEN RootDiv(Sqrt(Trends_variance(amounts, avgAmount)), avgAmount)
  ELSE Sqrt(Num(1))

\* avgAmount > 0 ? (stdDev / avgAmount) : 1
Trends_coefficientOfVariation(amounts, avgAmount) ==
  IF NGt(avgAmount, Num(0))
  THEN RootDiv(Sqrt(Trends_variance(amounts, avgAmount)), avgAmount)
  ELSE Sqrt(Num(1))

\* the classification with the minimum of months of the bill list
Trends_isRecurring_twoMonths(amounts, coefficientOfVariation) ==
  RootLt(coefficientOfVariation, RecurringThreshold) /\ Len(amounts) >= BillMinMonths

\* coefficientOfVariation < 0.3 && amounts.length >= 3
Trends_isRecurring(amounts, coefficientOfVariation) ==
  RootLt(coefficientOfVariation, RecurringThreshold) /\ Len(amounts) >= RecurringMinMonths

\* the first half of a series: slice(0, halfPoint)
Trends_firstHalf(amounts) == Slice(amounts, 0, Len(amounts) \div 2)
\* the second half of a series: slice(halfPoint)
Trends_secondHalf(amounts) == SliceFrom(amounts, Len(amounts) \div 2)

\* the change taken relative to the second half's average
Trends_billTrend_overLater(amounts) ==
  LET firstHalfAvg == NDiv(SumSeries(Trends_firstHalf(amounts)),
                           Num(Len(Trends_firstHalf(amounts))))
      secondHalfAvg == NDiv(SumSeries(Trends_secondHalf(amounts)),
                            Num(Len(Trends_secondHalf(amounts))))
  IN  IF NGt(firstHalfAvg, Num(0))
      THEN NMul(NDiv(NSub(secondHalfAvg, firstHalfAvg), secondHalfAvg), Num(100))
      ELSE Num(0)

\* the trend of a bill: each half's sum divided by its length
Trends_billTrend(amounts) ==
  TrendOf(NDiv(SumSeries(Trends_firstHalf(amounts)), Num(Len(Trends_firstHalf(amounts)))),
          NDiv(SumSeries(Trends_secondHalf(amounts)), Num(Len(Trends_secondHalf(amounts)))))

\* length || 1
LengthOr1(half) == IF Len(half) = 0 THEN 1 ELSE Len(half)

\* the trend of a category: each half's sum divided by (length || 1)
Trends_categoryTrend(amounts) ==
  TrendOf(NDiv(SumSeries(Trends_firstHalf(amounts)), Num(LengthOr1(Trends_firstHalf(amounts)))),
          NDiv(SumSeries(Trends_secondHalf(amounts)), Num(LengthOr1(Trends_secondHalf(amounts)))))

\* the BillTrend pushed for one entry of the billMap
Trends_bill(entry) ==
  LET amounts == entry.amounts
      parts == SplitHyphen(entry.key)
      avgAmount == NDiv(SumSeries(amounts), Num(Len(amounts)))
      coefficientOfVariation == Trends_coefficientOfVariation(amounts, avgAmount)
  IN  [name |-> parts[1],
       category |-> parts[2],
       icon |-> IconOf(entry.category),
       color |-> ColorOf(entry.category),
       monthlyAmounts |-> SortByMonthLabel(amounts),
       trend |-> Trends_billTrend(amounts),
       avgAmount |-> avgAmount,
       isRecurring |-> Trends_isRecurring(amounts, coefficientOfVariation),
       variance |-> coefficientOfVariation]

\* billMap.forEach: a BillTrend for every bill with at least two months
RECURSIVE Trends_billsFrom(_, _)
Trends_billsFrom(billMap, i) ==
  IF i > Len(billMap) THEN <<>>
  ELSE (IF Len(billMap[i].amounts) >= BillMinMonths THEN <<Trends_bill(billMap[i])>> ELSE <<>>)
       \o Trends_billsFrom(billMap, i + 1)

\* the CategoryTrend pushed for one entry of the categoryMap
Trends_category(entry) ==
  LET amounts == entry.amounts
      totalSpent == SumSeries(amounts)
  IN  [category |-> entry.key,
       icon |-> IconOf(entry.category),
       color |-> ColorOf(entry.category),
       data |-> SortByMonthLabel(amounts),
       trend |-> Trends_categoryTrend(amounts),
       avgMonthly |-> NDiv(totalSpent, Num(Len(amounts))),
       totalSpent |-> totalSpent]

\* the comparator of billTrendsArray.sort: recurring bills first, then by
\* |trend| descending; TRUE when a must come before b
BillBefore(a, b) ==
  IF a.isRecurring /\ ~b.isRecurring THEN TRUE
  ELSE IF ~a.isRecurring /\ b.isRecurring THEN FALSE
  ELSE NLt(NSub(NAbs(b.trend), NAbs(a.trend)), Num(0))

\* billTrendsArray.sort: a stable sort by insertion
RECURSIVE SortBillsFrom(_, _, _)
SortBillsFrom(list, i, sorted) ==
  IF i > Len(list) THEN sorted
  ELSE
    LET later == {j \in 1..Len(sorted) : BillBefore(list[i], sorted[j])}
        at == IF later = {} THEN Len(sorted) + 1
              ELSE CHOOSE j \in later : \A k \in later : j <= k
    IN  SortBillsFrom(list, i + 1,
          SubSeq(sorted, 1, at - 1) \o <<list[i]>> \o SubSeq(sorted, at, Len(sorted)))

SortBills(list) == SortBillsFrom(list, 1, <<>>)

\* the result of loadTrendsData for a non-empty query result
Trends_analysis(expenses, west) ==
  LET maps == Trends_maps(expenses, west)
  IN  [monthlyData |-> Trends_monthlyDataArray(maps.monthlyMap),
       billTrends |-> SortBills(Trends_billsFrom(maps.billMap, 1)),
       categoryTrends |-> SortByTotalSpent([i \in 1..Len(maps.categoryMap) |->
                                              Trends_category(maps.categoryMap[i])])]

\* loadTrendsData is called (on mount): loading is set and the query for the
\* selected period is issued
loadTrendsData_start ==
  /\ mounted = "Trends"
  /\ trendsRun.pc # "query"
  /\ trendsRun' = [trendsRun EXCEPT !.pc = "query", !.repeated = FALSE]
  /\ trendsLoading' = TRUE
  /\ toasts' = {}
  /\ failures' = {}
  /\ UNCHANGED <<formVars, envVars, storeVars, incomeVars, overviewVars, flowVars, habitsVars,
                 selectedPeriod, monthlyData, billTrends, categoryTrends>>

\* the query resolves with an error: it is logged and loading ends
loadTrendsData_error ==
  /\ trendsRun.pc = "query"
  /\ trendsRun' = [trendsRun EXCEPT !.pc = "done"]
  /\ trendsLoading' = FALSE
  /\ toasts' = {}
  /\ failures' = {"loadTrendsData"}
  /\ UNCHANGED <<formVars, envVars, storeVars, incomeVars, overviewVars, flowVars, habitsVars,
                 selectedPeriod, monthlyData, billTrends, categoryTrends>>

\* the query resolves with no rows and loading is left on
loadTrendsData_empty_stillLoading ==
  /\ trendsRun.pc = "query"
  /\ Since(expenseTable, MonthsAgo(ParseInt(selectedPeriod))) = <<>>
  /\ trendsRun' = [pc |-> "done", expenses |-> <<>>, repeated |-> FALSE]
  /\ toasts' = {}
  /\ failures' = {}
  /\ UNCHANGED <<formVars, envVars, storeVars, incomeVars, overviewVars, flowVars, habitsVars,
                 selectedPeriod, monthlyData, billTrends, categoryTrends, trendsLoading>>

\* the query resolves with no rows: loading ends and nothing is published
loadTrendsData_empty ==
  /\ trendsRun.pc = "query"
  /\ Since(expenseTable, MonthsAgo(ParseInt(selectedPeriod))) = <<>>
  /\ trendsRun' = [pc |-> "done", expenses |-> <<>>, repeated |-> FALSE]
  /\ trendsLoading' = FALSE
  /\ toasts' = {}
  /\ failures' = {}
  /\ UNCHANGED <<formVars, envVars, storeVars, incomeVars, overviewVars, flowVars, habitsVars,
                 selectedPeriod, monthlyData, billTrends, categoryTrends>>

\* the query resolves with rows, oldest first: the monthly totals, the bill
\* trends and the category trends are published
loadTrendsData_analyse ==
  /\ trendsRun.pc = "query"
  /\ LET rows == Since(expenseTable, MonthsAgo(ParseInt(selectedPeriod)))
     IN  /\ rows # <<>>
         /\ \E expenses \in Orderings(rows, ExpenseDateKeys(rows), FALSE) :
              LET result == Trends_analysis(expenses, tzWest)
              IN  /\ trendsRun' = [pc |-> "done", expenses |-> expenses,
                                  repeated |-> (trendsRun.expenses = expenses)]
                  /\ monthlyData' = result.monthlyData
                  /\ billTrends' = result.billTrends
                  /\ categoryTrends' = result.categoryTrends
  /\ trendsLoading' = FALSE
  /\ toasts' = {}
  /\ failures' = {}
  /\ UNCHANGED <<formVars, envVars, storeVars, incomeVars, overviewVars, flowVars, habitsVars,
                 selectedPeriod>>

loadTrendsData ==
  \/ loadTrendsData_start
  \/ loadTrendsData_error
  \/ loadTrendsData_empty
  \/ loadTrendsData_analyse

\* the periods of the selector
Periods == {"6", "12", "18"}

\* the selector, which is shown once loading is over, is set to another
\* period: the effect on [selectedPeriod] calls loadTrendsData
MonthlyTrends_setSelectedPeriod ==
  /\ mounted = "Trends"
  /\ ~trendsLoading
  /\ \E period \in Periods \ {selectedPeriod} : selectedPeriod' = period
  /\ trendsRun' = [trendsRun EXCEPT !.pc = "query", !.repeated = FALSE]
  /\ trendsLoading' = TRUE
  /\ toasts' = {}
  /\ failures' = {}
  /\ UNCHANGED <<formVars, envVars, storeVars, incomeVars, overviewVars, flowVars, habitsVars,
                 monthlyData, billTrends, categoryTrends>>

\* ------------------------------------------------------------------------
\* Dashboard.loadDashboardStats
\* ------------------------------------------------------------------------
\* the texts typed into a field of type "number", and what the field hands to
\* onChange: the text of a valid number, or "" for any other text
TypedAmounts == {"", "100", "abc"}
NumberInputValue(typed) == IF typed \in {"100", "0"} THEN typed ELSE ""

\* parseFloat
ParseFloat(text) ==
  CASE text = "100" -> Num(100) [] text = "0" -> Num(0) [] OTHER -> NaN

\* Number.prototype.toString
NumberToString(x) ==
  CASE x = Num(100) -> "100" [] x = Num(0) -> "0" [] OTHER -> "NaN"

\* the rows of t dated in a month
InMonth(t, month) == SelectSeq(t, LAMBDA r : r.expense_date.month = month)

\* the text `${year}-${month.toString().padStart(2, '0')}-01`: texts of this
\* shape compare as their three numbers do, one after the other
FirstOfMonthText(year, month) == [year |-> year, month |-> month, day |-> 1]

\* the expense_date of a row as the store holds it
DateTextOf(date) ==
  [year |-> YearOf(date.month), month |-> MonthNumOf(date.month), day |-> date.day]

TextBefore(a, b) ==
  \/ a.year < b.year
  \/ a.year = b.year /\ a.month < b.month
  \/ a.year = b.year /\ a.month = b.month /\ a.day < b.day

\* .gte('expense_date', range.gte).lt('expense_date', range.lt)
InRange(t, range) ==
  SelectSeq(t, LAMBDA r : /\ ~TextBefore(DateTextOf(r.expense_date), range.gte)
                          /\ TextBefore(DateTextOf(r.expense_date), range.lt))

\* the bounds of the query of this month's expenses
Dashboard_currentRange(currentMonth, currentYear) ==
  [gte |-> FirstOfMonthText(currentYear, currentMonth),
   lt |-> FirstOfMonthText(currentYear, currentMonth + 1)]

\* the bounds of the query of last month's expenses
Dashboard_previousRange(currentMonth, currentYear) ==
  LET prevMonth == IF currentMonth = 1 THEN 12 ELSE currentMonth - 1
      prevYear == IF currentMonth = 1 THEN currentYear - 1 ELSE currentYear
  IN  [gte |-> FirstOfMonthText(prevYear, prevMonth),
       lt |-> FirstOfMonthText(prevYear, currentMonth)]

\* data?.reduce((sum, row) => sum + Number(row.amount), 0) || 0, where data is
\* null when the query resolved with an error
Dashboard_total(ok, amounts) ==
  IF ok THEN NOr(NSum([i \in 1..Len(amounts) |-> Number(amounts[i])]), Num(0)) ELSE Num(0)

\* the budgets query resolves: its error, if any, is not read
loadDashboardStats_budgets ==
  /\ mounted = "Stats"
  /\ statsRun.pc = "budgets"
  /\ \E ok \in BOOLEAN :
       /\ failures' = IF ok THEN {} ELSE {"loadDashboardStats.budgets"}
       /\ statsRun' = [statsRun EXCEPT
            !.pc = "expenses",
            !.totalBudget = Dashboard_total(ok, [i \in 1..Len(budgetTable) |->
                                                   budgetTable[i].budgeted_amount]),
            !.failed = IF ok THEN @ ELSE @ \cup {"budgets"}]
  /\ toasts' = {}
  /\ UNCHANGED <<stats, expenseFormVars, incomeFormVars, recentVars, envVars, storeVars,
                 incomeVars, overviewVars, flowVars, habitsVars, trendsVars>>

\* the query of this month's expenses resolves
loadDashboardStats_expenses ==
  /\ mounted = "Stats"
  /\ statsRun.pc = "expenses"
  /\ \E ok \in BOOLEAN :
       /\ failures' = IF ok THEN {} ELSE {"loadDashboardStats.expenses"}
       /\ LET expenses == InRange(expenseTable,
                                  Dashboard_currentRange(MonthNumOf(clock), YearOf(clock)))
          IN  statsRun' = [statsRun EXCEPT
                !.pc = "previous",
                !.totalExpenses = Dashboard_total(ok, [i \in 1..Len(expenses) |->
                                                         expenses[i].amount]),
                !.expenses = IF ok THEN expenses ELSE <<>>,
                !.failed = IF ok THEN @ ELSE @ \cup {"expenses"}]
  /\ toasts' = {}
  /\ UNCHANGED <<stats, expenseFormVars, incomeFormVars, recentVars, envVars, storeVars,
                 incomeVars, overviewVars, flowVars, habitsVars, trendsVars>>

\* the query of last month's expenses resolves and the stats are set
loadDashboardStats_previous ==
  /\ mounted = "Stats"
  /\ statsRun.pc = "previous"
  /\ \E ok \in BOOLEAN :
       /\ failures' = IF ok THEN {} ELSE {"loadDashboardStats.previous"}
       /\ LET prevExpenses == InRange(expenseTable,
                                      Dashboard_previousRange(MonthNumOf(clock), YearOf(clock)))
              prevTotalExpenses == Dashboard_total(ok, [i \in 1..Len(prevExpenses) |->
                                                          prevExpenses[i].amount])
              totalBudget == statsRun.totalBudget
              totalExpenses == statsRun.totalExpenses
          IN  /\ stats' = [totalBudget |-> totalBudget,
                           totalExpenses |-> totalExpenses,
                           variance |-> NSub(totalBudget, totalExpenses),
                           monthlyTrend |-> TrendOf(prevTotalExpenses, totalExpenses)]
              /\ statsRun' = [statsRun EXCEPT !.pc = "done",
                                              !.prevExpenses = IF ok THEN prevExpenses ELSE <<>>,
                                              !.failed = IF ok THEN @ ELSE @ \cup {"previous"}]
  /\ toasts' = {}
  /\ UNCHANGED <<expenseFormVars, incomeFormVars, recentVars, envVars, storeVars,
                 incomeVars, overviewVars, flowVars, habitsVars, trendsVars>>

loadDashboardStats ==
  \/ loadDashboardStats_budgets
  \/ loadDashboardStats_expenses
  \/ loadDashboardStats_previous

\* ------------------------------------------------------------------------
\* ExpenseForm
\* ------------------------------------------------------------------------
\* the rows of expense_categories offered by the Select: the categories the
\* budgets of the store belong to
FormCategories == {budgetTable[i].category.name : i \in 1..Len(budgetTable)}
FormNames == {"", "Rent"}

\* the ids of the rows of a table, and an id no row has
IdsOf(t) == {t[i].id : i \in 1..Len(t)}
NextId(t) == 1 + Cardinality(IdsOf(t))

\* a category is chosen in the Select: the effect on selectedCategory calls
\* loadBudgetsForCategory for it
ExpenseForm_setSelectedCategory ==
  /\ mounted = "ExpenseForm"
  /\ \E categoryId \in FormCategories \ {expenseForm.selectedCategory} :
       /\ expenseForm' = [expenseForm EXCEPT !.selectedCategory = categoryId]
       /\ formRun' = [formRun EXCEPT !.categoryBudgets = @ \cup {categoryId}]
  /\ toasts' = {}
  /\ failures' = {}
  /\ UNCHANGED <<statsVars, formBudgets, incomeFormVars, recentVars, envVars,
                 storeVars, incomeVars, overviewVars, flowVars, habitsVars, trendsVars>>

\* a budget of the list is chosen, or a text is typed into the name or the
\* amount
ExpenseForm_onChange ==
  /\ mounted = "ExpenseForm"
  /\ \/ \E id \in IdsOf(formBudgets) :
          expenseForm' = [expenseForm EXCEPT !.selectedBudget = id]
     \/ \E text \in FormNames :
          expenseForm' = [expenseForm EXCEPT !.expenseName = text]
     \/ \E typed \in TypedAmounts :
          expenseForm' = [expenseForm EXCEPT !.expenseAmount = NumberInputValue(typed)]
  /\ toasts' = {}
  /\ failures' = {}
  /\ UNCHANGED <<statsVars, formBudgets, formRun, incomeFormVars, recentVars,
                 envVars, storeVars, incomeVars, overviewVars, flowVars, habitsVars, trendsVars>>

\* loadBudgets resolves: a failure is logged to the console
ExpenseForm_loadBudgets ==
  /\ mounted = "ExpenseForm"
  /\ formRun.budgets = "query"
  /\ \E ok \in BOOLEAN :
       /\ failures' = IF ok THEN {} ELSE {"loadBudgets"}
       /\ formBudgets' = IF ok THEN budgetTable ELSE formBudgets
  /\ formRun' = [formRun EXCEPT !.budgets = "idle"]
  /\ toasts' = {}
  /\ UNCHANGED <<statsVars, expenseForm, incomeFormVars, recentVars, envVars,
                 storeVars, incomeVars, overviewVars, flowVars, habitsVars, trendsVars>>

\* loadBudgetsForCategory resolves: the budgets of the category replace the
\* list and the selection is reset; a failure is logged to the console
ExpenseForm_loadBudgetsForCategory ==
  /\ mounted = "ExpenseForm"
  /\ \E categoryId \in formRun.categoryBudgets :
       /\ formRun' = [formRun EXCEPT !.categoryBudgets = @ \ {categoryId}]
       /\ \E ok \in BOOLEAN :
            /\ failures' = IF ok THEN {} ELSE {"loadBudgetsForCategory"}
            /\ IF ok
               THEN /\ formBudgets' = SelectSeq(budgetTable,
                                                LAMBDA b : CategoryNameOf(b) = categoryId)
                    /\ expenseForm' = [expenseForm EXCEPT !.selectedBudget = 0]
               ELSE UNCHANGED <<formBudgets, expenseForm>>
  /\ toasts' = {}
  /\ UNCHANGED <<statsVars, incomeFormVars, recentVars, envVars,
                 storeVars, incomeVars, overviewVars, flowVars, habitsVars, trendsVars>>

\* limit(n)
Limit(rows, n) == SubSeq(rows, 1, IF Len(rows) < n THEN Len(rows) ELSE n)

\* the check at the head of handleSubmit passing every field
ExpenseForm_isMissing_none(form) == FALSE

\* !selectedCategory || !expenseName || !expenseAmount
ExpenseForm_isMissing(form) ==
  form.selectedCategory = "" \/ form.expenseName = "" \/ form.expenseAmount = ""

\* the form is submitted (the button is disabled while loading): a missing
\* field is notified, otherwise the insert is issued
ExpenseForm_handleSubmit ==
  /\ mounted = "ExpenseForm"
  /\ ~expenseForm.loading
  /\ IF ExpenseForm_isMissing(expenseForm)
     THEN /\ toasts' = {"Please fill in required fields"}
          /\ failures' = {}
          /\ UNCHANGED <<expenseForm, formRun>>
     ELSE /\ expenseForm' = [expenseForm EXCEPT !.loading = TRUE]
          /\ formRun' = [formRun EXCEPT
               !.submit = "insert",
               !.row = [category_id |-> expenseForm.selectedCategory,
                        budget_id |-> expenseForm.selectedBudget,
                        name |-> expenseForm.expenseName,
                        amount |-> ParseFloat(expenseForm.expenseAmount),
                        expense_date |-> expenseForm.expenseDate,
                        notes |-> expenseForm.expenseNotes]]
          /\ toasts' = {}
          /\ failures' = {}
  /\ UNCHANGED <<statsVars, formBudgets, incomeFormVars, recentVars, envVars,
                 storeVars, incomeVars, overviewVars, flowVars, habitsVars, trendsVars>>

\* the row the store keeps for an insert
StoredExpense(row, id) ==
  [id |-> id, name |-> row.name, amount |-> row.amount.n, expense_date |-> row.expense_date,
   category |-> Category(row.category_id), budget_id |-> row.budget_id]

\* the insert resolves. Success: notification, the fields are reset, the
\* list under the form is reloaded and onExpenseAdded (the Dashboard's
\* loadDashboardStats) is called. Failure: notification. Either way loading
\* ends.
ExpenseForm_insert ==
  /\ mounted = "ExpenseForm"
  /\ formRun.submit = "insert"
  /\ \E ok \in BOOLEAN :
       /\ failures' = IF ok THEN {} ELSE {"ExpenseForm.insert"}
       /\ IF ok
          THEN /\ Len(expenseTable) < MaxExpenses
               /\ IsFinite(formRun.row.amount)
               /\ expenseTable' = Append(expenseTable,
                                         StoredExpense(formRun.row, NextId(expenseTable)))
               /\ toasts' = {"Expense added successfully"}
               /\ expenseForm' = ExpenseFormInit
               /\ formRun' = [formRun EXCEPT !.submit = "idle", !.row = NoRow]
               /\ statsRun' = StatsMounted
          ELSE /\ toasts' = {"Failed to add expense"}
               /\ expenseForm' = [expenseForm EXCEPT !.loading = FALSE]
               /\ formRun' = [formRun EXCEPT !.submit = "idle", !.row = NoRow]
               /\ UNCHANGED <<expenseTable, statsRun>>
  /\ UNCHANGED <<stats, formBudgets, incomeFormVars, recentVars, envVars,
                 incomeTable, budgetTable, incomeVars, overviewVars, flowVars, habitsVars,
                 trendsVars>>

ExpenseForm ==
  \/ ExpenseForm_setSelectedCategory
  \/ ExpenseForm_onChange
  \/ ExpenseForm_loadBudgets
  \/ ExpenseForm_loadBudgetsForCategory
  \/ ExpenseForm_handleSubmit
  \/ ExpenseForm_insert

\* ------------------------------------------------------------------------
\* Income page: the add form, inline editing and deletion
\* ------------------------------------------------------------------------
TypedNames == {"", " ", "Job"}

\* String.prototype.trim
Trim(text) == IF text = " " THEN "" ELSE text

\* a text is typed into the name or the amount of the add form
Income_setFormData ==
  /\ mounted = "Income"
  /\ \/ \E text \in TypedNames : formData' = [formData EXCEPT !.name = text]
     \/ \E typed \in TypedAmounts :
          formData' = [formData EXCEPT !.amount = NumberInputValue(typed)]
  /\ toasts' = {}
  /\ failures' = {}
  /\ UNCHANGED <<statsVars, expenseFormVars, editing, incomeRun, recentVars, envVars,
                 storeVars, incomeVars, overviewVars, flowVars, habitsVars, trendsVars>>

\* the check at the head of handleSubmit passing every field
Income_isMissing_none(data) == FALSE

\* !formData.name.trim() || !formData.amount
Income_isMissing(data) == Trim(data.name) = "" \/ data.amount = ""

\* the add form is submitted, one request of the page at a time: a missing field is
\* notified, otherwise the insert is issued
Income_handleSubmit ==
  /\ mounted = "Income"
  /\ incomeRun = IncomeIdle
  /\ IF Income_isMissing(formData)
     THEN /\ toasts' = {"Please fill in all fields"}
          /\ failures' = {}
          /\ UNCHANGED incomeRun
     ELSE /\ incomeRun' = [incomeRun EXCEPT
               !.submit = "insert",
               !.row = [name |-> Trim(formData.name),
                        amount |-> ParseFloat(formData.amount),
                        frequency |-> formData.frequency]]
          /\ toasts' = {}
          /\ failures' = {}
  /\ UNCHANGED <<statsVars, expenseFormVars, formData, editing, recentVars, envVars,
                 storeVars, incomeVars, overviewVars, flowVars, habitsVars, trendsVars>>

\* getUser and the insert resolve. Success: notification, the form is reset
\* and loadIncomes is called. No user, or a failed insert: notification.
Income_insert ==
  /\ mounted = "Income"
  /\ incomeRun.submit = "insert"
  /\ \E ok \in BOOLEAN :
       /\ failures' = IF ok THEN {} ELSE {"Income.insert"}
       /\ IF ok
          THEN /\ Len(incomeTable) < MaxIncomes
               /\ IsFinite(incomeRun.row.amount)
               /\ incomeTable' = Append(incomeTable,
                                        [id |-> NextId(incomeTable), name |-> incomeRun.row.name,
                                         amount |-> incomeRun.row.amount.n,
                                         frequency |-> incomeRun.row.frequency])
               /\ toasts' = {"Income source added successfully"}
               /\ formData' = FormDataInit
          ELSE /\ toasts' = {"Failed to add income source"}
               /\ UNCHANGED <<incomeTable, formData>>
  /\ incomeRun' = [incomeRun EXCEPT !.submit = "idle", !.row = NoRow]
  /\ UNCHANGED <<statsVars, expenseFormVars, editing, recentVars, envVars, budgetTable,
                 expenseTable, incomeVars, overviewVars, flowVars, habitsVars, trendsVars>>

\* the pencil of a listed income is pressed, or the edit is cancelled
Income_handleEdit ==
  /\ mounted = "Income"
  /\ \/ \E i \in 1..Len(incomes) :
          editing' = [editingId |-> incomes[i].id,
                      editData |-> [name |-> incomes[i].name,
                                    amount |-> Number(incomes[i].amount),
                                    frequency |-> incomes[i].frequency]]
     \/ /\ editing.editingId # 0
        /\ editing' = NotEditing
  /\ toasts' = {}
  /\ failures' = {}
  /\ UNCHANGED <<statsVars, expenseFormVars, formData, incomeRun, recentVars, envVars,
                 storeVars, incomeVars, overviewVars, flowVars, habitsVars, trendsVars>>

\* a text is typed into the name or the amount of the row being edited:
\* the amount is parseFloat(e.target.value) || 0
Income_setEditData ==
  /\ mounted = "Income"
  /\ editing.editingId # 0
  /\ \/ \E text \in {"", "Job"} : editing' = [editing EXCEPT !.editData.name = text]
     \/ \E typed \in TypedAmounts :
          editing' = [editing EXCEPT
            !.editData.amount = NOr(ParseFloat(NumberInputValue(typed)), Num(0))]
  /\ toasts' = {}
  /\ failures' = {}
  /\ UNCHANGED <<statsVars, expenseFormVars, formData, incomeRun, recentVars, envVars,
                 storeVars, incomeVars, overviewVars, flowVars, habitsVars, trendsVars>>

\* the check at the head of handleSaveEdit passing every field
Income_isMissingEdit_none(edit) == FALSE

\* !editingId || !editData.name || !editData.amount
Income_isMissingEdit(edit) ==
  \/ edit.editingId = 0
  \/ edit.editData.name = ""
  \/ IsNaN(edit.editData.amount) \/ edit.editData.amount = Num(0)

\* the check of the edited row is pressed, one request of the page at a time: a missing
\* field is notified, otherwise the update is issued
Income_handleSaveEdit ==
  /\ mounted = "Income"
  /\ editing.editingId # 0
  /\ incomeRun = IncomeIdle
  /\ IF Income_isMissingEdit(editing)
     THEN /\ toasts' = {"Please fill in all required fields"}
          /\ failures' = {}
          /\ UNCHANGED incomeRun
     ELSE /\ incomeRun' = [incomeRun EXCEPT
               !.save = "update",
               !.patch = [id |-> editing.editingId,
                          name |-> editing.editData.name,
                          amount |-> ParseFloat(NumberToString(editing.editData.amount)),
                          frequency |-> editing.editData.frequency]]
          /\ toasts' = {}
          /\ failures' = {}
  /\ UNCHANGED <<statsVars, expenseFormVars, formData, editing, recentVars, envVars,
                 storeVars, incomeVars, overviewVars, flowVars, habitsVars, trendsVars>>

\* update(patch).eq('id', id)
UpdateRow(t, patch) ==
  [i \in 1..Len(t) |->
     IF t[i].id = patch.id
     THEN [t[i] EXCEPT !.name = patch.name, !.amount = patch.amount.n,
                       !.frequency = patch.frequency]
     ELSE t[i]]

\* delete().eq('id', id)
DeleteRow(t, id) == SelectSeq(t, LAMBDA r : r.id # id)

\* the update resolves. Success: notification, editing ends and loadIncomes
\* is called. Failure: notification.
Income_update ==
  /\ mounted = "Income"
  /\ incomeRun.save = "update"
  /\ \E ok \in BOOLEAN :
       /\ failures' = IF ok THEN {} ELSE {"Income.update"}
       /\ IF ok
          THEN /\ IsFinite(incomeRun.patch.amount)
               /\ incomeTable' = UpdateRow(incomeTable, incomeRun.patch)
               /\ toasts' = {"Income updated successfully"}
               /\ editing' = NotEditing
          ELSE /\ toasts' = {"Failed to update income"}
               /\ UNCHANGED <<incomeTable, editing>>
  /\ incomeRun' = [incomeRun EXCEPT !.save = "idle", !.patch = NoRow]
  /\ UNCHANGED <<statsVars, expenseFormVars, formData, recentVars, envVars, budgetTable,
                 expenseTable, incomeVars, overviewVars, flowVars, habitsVars, trendsVars>>

\* the bin of a listed income is pressed, and its delete resolves. Success:
\* notification and loadIncomes is called. Failure: notification.
Income_handleDelete ==
  /\ mounted = "Income"
  /\ \/ /\ incomeRun = IncomeIdle
        /\ \E i \in 1..Len(incomes) :
             incomeRun' = [incomeRun EXCEPT !.delete = incomes[i].id]
        /\ toasts' = {}
        /\ failures' = {}
        /\ UNCHANGED incomeTable
     \/ /\ incomeRun.delete # 0
        /\ incomeRun' = [incomeRun EXCEPT !.delete = 0]
        /\ \E ok \in BOOLEAN :
             /\ failures' = IF ok THEN {} ELSE {"Income.delete"}
             /\ IF ok
                THEN /\ incomeTable' = DeleteRow(incomeTable, incomeRun.delete)
                     /\ toasts' = {"Income source deleted"}
                ELSE /\ toasts' = {"Failed to delete income source"}
                     /\ UNCHANGED incomeTable
  /\ UNCHANGED <<statsVars, expenseFormVars, formData, editing, recentVars, envVars,
                 budgetTable, expenseTable, incomeVars, overviewVars, flowVars, habitsVars,
                 trendsVars>>

IncomeForms ==
  \/ Income_setFormData
  \/ Income_handleSubmit
  \/ Income_insert
  \/ Income_handleEdit
  \/ Income_setEditData
  \/ Income_handleSaveEdit
  \/ Income_update
  \/ Income_handleDelete

\* ------------------------------------------------------------------------
\* RecentExpenses
\* ------------------------------------------------------------------------
RecentLimit == 10

\* the category cell of a row: expense.category.icon, .color and .name
RecentExpenses_categoryCell(expense) ==
  [icon |-> expense.category.icon, color |-> expense.category.color,
   name |-> expense.category.name]

\* what the component renders: the loading text, the empty text or the
\* table; reading a property of a null category throws a TypeError
RecentExpenses_render(expenses, loading) ==
  IF loading THEN [view |-> "loading", rows |-> <<>>]
  ELSE IF Len(expenses) = 0 THEN [view |-> "empty", rows |-> <<>>]
  ELSE IF \E i \in 1..Len(expenses) : expenses[i].category.absent
       THEN [view |-> "error", rows |-> <<>>]
       ELSE [view |-> "table",
             rows |-> [i \in 1..Len(expenses) |-> RecentExpenses_categoryCell(expenses[i])]]

\* loadExpenses resolves: the 10 newest expenses, or a notification; loading
\* ends either way
RecentExpenses_loadExpenses ==
  /\ mounted = "History"
  /\ recentRun.load = "query"
  /\ \E ok \in BOOLEAN :
       /\ failures' = IF ok THEN {} ELSE {"RecentExpenses.load"}
       /\ IF ok
          THEN /\ \E data \in Orderings(expenseTable, ExpenseDateKeys(expenseTable), TRUE) :
                    /\ recentExpenses' = Limit(data, RecentLimit)
                    /\ recentShown' = RecentExpenses_render(Limit(data, RecentLimit), FALSE)
               /\ toasts' = {}
          ELSE /\ UNCHANGED recentExpenses
               /\ recentShown' = RecentExpenses_render(recentExpenses, FALSE)
               /\ toasts' = {"Failed to load expenses"}
  /\ recentLoading' = FALSE
  /\ recentRun' = [recentRun EXCEPT !.load = "idle"]
  /\ UNCHANGED <<statsVars, expenseFormVars, incomeFormVars, envVars, storeVars,
                 incomeVars, overviewVars, flowVars, habitsVars, trendsVars>>

\* the bin of a row of the table is pressed, and its delete resolves.
\* Success: notification and loadExpenses is called. Failure: notification.
RecentExpenses_handleDelete ==
  /\ mounted = "History"
  /\ \/ /\ recentShown.view = "table"
        /\ \E i \in 1..Len(recentExpenses) :
             recentRun' = [recentRun EXCEPT !.delete = @ \cup {recentExpenses[i].id}]
        /\ toasts' = {}
        /\ failures' = {}
        /\ UNCHANGED expenseTable
     \/ \E id \in recentRun.delete :
          \E ok \in BOOLEAN :
            /\ failures' = IF ok THEN {} ELSE {"RecentExpenses.delete"}
            /\ IF ok
               THEN /\ expenseTable' = DeleteRow(expenseTable, id)
                    /\ toasts' = {"Expense deleted successfully"}
                    /\ recentRun' = [load |-> "query", delete |-> recentRun.delete \ {id}]
               ELSE /\ toasts' = {"Failed to delete expense"}
                    /\ recentRun' = [recentRun EXCEPT !.delete = @ \ {id}]
                    /\ UNCHANGED expenseTable
  /\ UNCHANGED <<statsVars, expenseFormVars, incomeFormVars, recentExpenses, recentLoading,
                 recentShown, envVars, incomeTable, budgetTable, incomeVars, overviewVars,
                 flowVars, habitsVars, trendsVars>>

RecentExpenses ==
  \/ RecentExpenses_loadExpenses
  \/ RecentExpenses_handleDelete

\* ------------------------------------------------------------------------
\* The forms and lists over a bounded store
\* ------------------------------------------------------------------------
\* the rows of a table numbered by their place
RECURSIVE WithIdsFrom(_, _)
WithIdsFrom(t, i) ==
  IF i > Len(t) THEN <<>>
  ELSE <<[id |-> i, name |-> t[i].name, amount |-> t[i].amount,
          expense_date |-> t[i].expense_date, category |-> t[i].category,
          budget_id |-> t[i].budget_id]>> \o WithIdsFrom(t, i + 1)

FormDates == {[month |-> NowMonth - 1, day |-> 15], [month |-> NowMonth, day |-> 15]}
FormExpenseRows == [name : {"Item"}, amount : {50}, expense_date : FormDates,
                    category : {Category("Groceries"), NoCategory}, budget_id : {0}]

\* the stores that leave room for an insert
FormExpenseTables ==
  {WithIdsFrom(t, 1) : t \in SeqsUpTo(FormExpenseRows, MaxExpenses - 1)}

FormIncomeTables ==
  {<<>>} \cup {<<[id |-> 1, name |-> "Job", amount |-> a, frequency |-> "monthly"]>> :
                 a \in {100}}

InitForms ==
  /\ \/ /\ mounted \in {"Stats", "History"}
        /\ expenseTable \in FormExpenseTables
        /\ incomeTable = <<>>
     \/ /\ mounted = "ExpenseForm"
        /\ expenseTable = <<>>
        /\ incomeTable = <<>>
     \/ /\ mounted = "Income"
        /\ expenseTable = <<>>
        /\ incomeTable \in FormIncomeTables
  /\ budgetTable = SampleBudgets
  /\ tzWest = FALSE
  /\ clock = NowMonth
  /\ InitIncomeViews
  /\ InitHabitsView
  /\ InitTrendsView
  /\ InitFormViews
  /\ InitAuthIdle

NextForms == loadDashboardStats \/ ExpenseForm \/ loadIncomes \/ IncomeForms \/ RecentExpenses

SpecForms == InitForms /\ [][NextForms]_vars

\* ------------------------------------------------------------------------
\* The budget flow over a bounded store of budgets and their expenses
\* ------------------------------------------------------------------------
BudgetNameOf(id) == IF id = 1 THEN "Food" ELSE IF id = 2 THEN "Fuel" ELSE "Home"

\* the budgets of this month: rows 1..n
FlowBudgetTables ==
  {[i \in 1..n |-> [id |-> i, name |-> BudgetNameOf(i), budgeted_amount |-> 300,
                    category |-> Category("Groceries")]] : n \in 0..MaxBudgets}

\* expenses of this month booked on one of the budgets, or on none
FlowExpenseRows ==
  [name : {"Item"}, amount : {10, 20}, expense_date : {Today},
   category : {Category("Groceries")}, budget_id : 0..MaxBudgets]

InitFlow ==
  /\ mounted = "Dashboard"
  /\ incomeTable = <<>>
  /\ budgetTable \in FlowBudgetTables
  /\ expenseTable \in SeqsUpTo(FlowExpenseRows, MaxExpenses)
  /\ tzWest = FALSE
  /\ clock = NowMonth
  /\ InitIncomeViews
  /\ InitHabitsView
  /\ InitTrendsView
  /\ InitFormViews
  /\ InitAuthIdle

NextFlow == loadBudgetFlow

\* ------------------------------------------------------------------------
\* The analyses over bills whose names or categories hold a hyphen
\* ------------------------------------------------------------------------
HyphenNames == {"Rent", "Co-op", "Co"}
HyphenCategories == {Category("Gas"), Category("op-Gas")}

HyphenRows ==
  [name : HyphenNames, amount : {10},
   expense_date : {[month |-> NowMonth - 1, day |-> 15], [month |-> NowMonth, day |-> 15]},
   category : HyphenCategories, budget_id : {0}]

HyphenRank(r) ==
  (DateKey(r.expense_date) * 10
     + (IF r.name = "Rent" THEN 0 ELSE IF r.name = "Co-op" THEN 1 ELSE 2)) * 10
     + (IF r.category.name = "Gas" THEN 0 ELSE 1)

\* the stores of at most MaxExpenses such expenses
HyphenTables ==
  {t \in SeqsUpTo(HyphenRows, MaxExpenses) :
     IsCanonical([i \in 1..Len(t) |-> HyphenRank(t[i])])}

InitBills ==
  /\ mounted \in {"Habits", "Trends"}
  /\ expenseTable \in HyphenTables
  /\ tzWest = FALSE
  /\ clock = NowMonth
  /\ incomeTable = <<>>
  /\ budgetTable = <<>>
  /\ InitIncomeViews
  /\ InitHabitsView
  /\ InitTrendsView
  /\ InitFormViews
  /\ InitAuthIdle

SpecFlow == InitFlow /\ [][NextFlow]_vars

\* ------------------------------------------------------------------------
\* The analyses over a bounded store
\* ------------------------------------------------------------------------
HabitAmounts == {0, 50, 100}
HabitCategories == {Category("Groceries"), NoCategory}
HabitDates == {[month |-> NowMonth - 1, day |-> 15], [month |-> NowMonth, day |-> 15]}

HabitRows == [name : {"Item"}, amount : HabitAmounts, expense_date : HabitDates,
              category : HabitCategories, budget_id : {0}]

CategoryRank(c) ==
  IF c.absent THEN 0 ELSE IF c.name = "Groceries" THEN 1 ELSE IF c.name = "Gas" THEN 2 ELSE 3
NameRank(name) == IF name = "Item" THEN 0 ELSE IF name = "Rent" THEN 1 ELSE 2
ExpenseRank(r) ==
  ((r.amount * 1000 + DateKey(r.expense_date)) * 10 + CategoryRank(r.category)) * 10
    + NameRank(r.name)

\* the stores of at most MaxExpenses expenses of one name
GeneralTables ==
  {t \in SeqsUpTo(HabitRows, MaxExpenses) :
     IsCanonical([i \in 1..Len(t) |-> ExpenseRank(t[i])])}

\* a bill paid at most once a month over the last MaxSeries months
SeriesMonth(i) == NowMonth - MaxSeries + i
Unpaid == [paid |-> FALSE, amount |-> 0]
Paid(amounts) == {[paid |-> TRUE, amount |-> a] : a \in amounts}

\* the series of a bill paid every month from its first payment on
PaidSinceStart(amounts) ==
  {series \in [1..MaxSeries -> Paid(amounts) \cup {Unpaid}] :
     \A i \in 1..(MaxSeries - 1) : series[i].paid => series[i + 1].paid}

RECURSIVE SeriesRowsFrom(_, _, _, _, _)
SeriesRowsFrom(name, category, day, series, i) ==
  IF i > MaxSeries THEN <<>>
  ELSE (IF series[i].paid
        THEN <<[name |-> name, amount |-> series[i].amount,
                expense_date |-> [month |-> SeriesMonth(i), day |-> day],
                category |-> category, budget_id |-> 0]>>
        ELSE <<>>)
       \o SeriesRowsFrom(name, category, day, series, i + 1)

SeriesAmounts == {0, 7, 10, 13}
SteadyAmounts == {10, 13}

\* the stores of two bills, each paid every month from its first payment on:
\* Rent on the 5th and Power on the 20th
SeriesTables ==
  {SeriesRowsFrom("Rent", Category("Housing"), 5, rent, 1)
     \o SeriesRowsFrom("Power", Category("Gas"), 20, power, 1) :
       rent \in PaidSinceStart(SeriesAmounts), power \in PaidSinceStart(SteadyAmounts)}

\* the stores of one bill, in any of the months a charge of 10 or a refund of
\* 10 (entered as a negative amount)
RefundAmounts == {-10, 10}
RefundTables ==
  {SeriesRowsFrom("Rent", Category("Housing"), 5, rent, 1) :
     rent \in [1..MaxSeries -> Paid(RefundAmounts) \cup {Unpaid}]}

\* an expense of this month
ThisMonth(name, amount, day, category) ==
  [name |-> name, amount |-> amount, expense_date |-> [month |-> NowMonth, day |-> day],
   category |-> category, budget_id |-> 0]

\* an expense of last month
LastMonth(name, amount, day, category) ==
  [name |-> name, amount |-> amount, expense_date |-> [month |-> NowMonth - 1, day |-> day],
   category |-> category, budget_id |-> 0]

\* Groceries 100 on the 1st and 120 on the 15th, Gas 50 on the 5th
GroceriesAndGas ==
  <<ThisMonth("Item", 100, 1, Category("Groceries")),
    ThisMonth("Item", 120, 15, Category("Groceries")),
    ThisMonth("Item", 50, 5, Category("Gas"))>>

\* a category with 30 of a total of 100
ThirtyOfHundred ==
  <<ThisMonth("Item", 30, 1, Category("Groceries")), ThisMonth("Item", 70, 5, Category("Gas"))>>

\* a category that falls from 100 to 80
HundredThenEighty ==
  <<LastMonth("Item", 100, 15, Category("Groceries")),
    ThisMonth("Item", 80, 15, Category("Groceries"))>>

ScenarioTables == {GroceriesAndGas, ThirtyOfHundred, HundredThenEighty}

\* the days on either side of the limits of the thirds of a month
BoundaryDays == {1, 10, 11, 20, 21}
BoundaryRows == [name : {"Item"}, amount : {10},
                 expense_date : {[month |-> NowMonth, day |-> d] : d \in BoundaryDays},
                 category : {Category("Groceries")}, budget_id : {0}]

\* the stores of at most MaxExpenses expenses of this month on those days
BoundaryTables ==
  {t \in SeqsUpTo(BoundaryRows, MaxExpenses) :
     IsCanonical([k \in 1..Len(t) |-> ExpenseRank(t[k])])}

\* the two analyses over the general stores and the bills with refunds, and
\* the trends over the bills paid monthly
InitAnalysis ==
  /\ \/ /\ mounted \in {"Habits", "Trends"}
        /\ expenseTable \in GeneralTables \cup RefundTables
     \/ /\ mounted = "Trends"
        /\ expenseTable \in SeriesTables
  /\ tzWest = FALSE
  /\ clock = NowMonth
  /\ incomeTable = <<>>
  /\ budgetTable = <<>>
  /\ InitIncomeViews
  /\ InitHabitsView
  /\ InitTrendsView
  /\ InitFormViews
  /\ InitAuthIdle

\* the two analyses over the general stores and the stores of the examples,
\* and, in any time zone, over the stores of BoundaryTables
InitInsights ==
  /\ mounted \in {"Habits", "Trends"}
  /\ \/ /\ expenseTable \in GeneralTables \cup ScenarioTables
        /\ tzWest = FALSE
     \/ /\ expenseTable \in BoundaryTables \ {<<>>}
        /\ tzWest \in BOOLEAN
  /\ clock = NowMonth
  /\ incomeTable = <<>>
  /\ budgetTable = <<>>
  /\ InitIncomeViews
  /\ InitHabitsView
  /\ InitTrendsView
  /\ InitFormViews
  /\ InitAuthIdle

NextAnalysis == analyzeSpendingHabits \/ loadTrendsData

SpecAnalysis == InitAnalysis /\ [][NextAnalysis]_vars
SpecInsights == InitInsights /\ [][NextAnalysis]_vars
SpecBills == InitBills /\ [][NextAnalysis]_vars

\* ------------------------------------------------------------------------
\* The three pipelines over a store that reaches back 15 months
\* ------------------------------------------------------------------------
\* a bill paid this month, 10 months ago or 15 months ago, booked on the
\* sample budget
PeriodRows ==
  [name : {"Rent"}, amount : {10},
   expense_date : {[month |-> NowMonth - back, day |-> 15] : back \in {0, 10, 15}},
   category : {Category("Gas")}, budget_id : {1}]

PeriodTables ==
  {t \in SeqsUpTo(PeriodRows, MaxExpenses) :
     IsCanonical([i \in 1..Len(t) |-> DateKey(t[i].expense_date)])}

InitPipelines ==
  /\ mounted \in {"Dashboard", "Habits", "Trends"}
  /\ incomeTable = <<>>
  /\ budgetTable = SampleBudgets
  /\ expenseTable \in PeriodTables
  /\ tzWest = FALSE
  /\ clock = NowMonth
  /\ InitIncomeViews
  /\ InitHabitsView
  /\ InitTrendsView
  /\ InitFormViews
  /\ InitAuthIdle

NextPipelines ==
  loadBudgetFlow \/ analyzeSpendingHabits \/ loadTrendsData \/ MonthlyTrends_setSelectedPeriod

SpecPipelines == InitPipelines /\ [][NextPipelines]_vars

\* a request that was sent settles: the awaited promise of each pipeline
\* resolves with rows, with none or with an error
\* ------------------------------------------------------------------------
\* AuthProvider and AccountSettings
\* ------------------------------------------------------------------------
appVars == <<mounted, tzWest, clock, storeVars, incomeVars, overviewVars, flowVars, habitsVars,
             trendsVars, failures, formVars>>

Usernames == {"admin", "guest"}
Passwords == {"admin", "abc", "wxyz"}

\* String.prototype.length of the texts in use
StringLength(text) ==
  CASE text = "" -> 0 [] text = "abc" -> 3 [] text = "wxyz" -> 4 [] text = "admin" -> 5
    [] OTHER -> 6

\* the mount effect of AuthProvider
AuthProvider_mount ==
  /\ mounted = "Auth"
  /\ ~authRun.mounted
  /\ authRun' = [authRun EXCEPT !.mounted = TRUE]
  /\ isAuthenticated' = IF localStorage.auth = "authenticated" THEN TRUE ELSE isAuthenticated
  /\ toasts' = {}
  /\ UNCHANGED <<appVars, localStorage, account>>

\* login accepting what the stored password is
AuthProvider_accepts_stored(username, password, stored) ==
  username = "admin" /\ password = (IF stored \in {NoItem, ""} THEN "admin" ELSE stored)

\* username === 'admin' && password === 'admin'
AuthProvider_accepts(username, password, stored) ==
  username = "admin" /\ password = "admin"

\* login(username, password)
AuthProvider_login ==
  /\ mounted = "Auth"
  /\ \E username \in Usernames, password \in Passwords :
       LET accepted == AuthProvider_accepts(username, password, localStorage.password)
       IN  /\ authRun' = [authRun EXCEPT !.login =
                 [called |-> TRUE, username |-> username, password |-> password,
                  stored |-> localStorage.password, returned |-> accepted]]
           /\ isAuthenticated' = IF accepted THEN TRUE ELSE isAuthenticated
           /\ localStorage' = IF accepted THEN [localStorage EXCEPT !.auth = "authenticated"]
                                           ELSE localStorage
  /\ toasts' = {}
  /\ UNCHANGED <<appVars, account>>

\* logout that leaves the persisted entry
AuthProvider_logout_keepsEntry ==
  /\ mounted = "Auth"
  /\ isAuthenticated' = FALSE
  /\ toasts' = {}
  /\ UNCHANGED <<appVars, localStorage, authRun, account>>

\* logout()
AuthProvider_logout ==
  /\ mounted = "Auth"
  /\ isAuthenticated' = FALSE
  /\ localStorage' = [localStorage EXCEPT !.auth = NoItem]
  /\ toasts' = {}
  /\ UNCHANGED <<appVars, authRun, account>>

\* the dialog is opened or closed
AccountSettings_setOpen ==
  /\ mounted = "Auth"
  /\ account' = [account EXCEPT !.open = ~@, !.verdict = NoVerdict]
  /\ toasts' = {}
  /\ UNCHANGED <<appVars, localStorage, isAuthenticated, authRun>>

\* a text is typed into one of the three fields of the open dialog
AccountSettings_onChange ==
  /\ mounted = "Auth"
  /\ account.open
  /\ \E text \in Passwords \cup {""} :
       \/ account' = [account EXCEPT !.currentPassword = text, !.verdict = NoVerdict]
       \/ account' = [account EXCEPT !.newPassword = text, !.verdict = NoVerdict]
       \/ account' = [account EXCEPT !.confirmPassword = text, !.verdict = NoVerdict]
  /\ toasts' = {}
  /\ UNCHANGED <<appVars, localStorage, isAuthenticated, authRun>>

\* the checks of handlePasswordChange with the last two exchanged
AccountSettings_check_matchFirst(storedPassword, currentPassword, newPassword, confirmPassword) ==
  IF currentPassword # storedPassword THEN "Current password is incorrect"
  ELSE IF newPassword # confirmPassword THEN "New passwords do not match"
  ELSE IF StringLength(newPassword) < 4 THEN "New password must be at least 4 characters long"
  ELSE ""

\* the checks of handlePasswordChange: the error that is set, "" when all
\* pass
AccountSettings_check(storedPassword, currentPassword, newPassword, confirmPassword) ==
  IF currentPassword # storedPassword THEN "Current password is incorrect"
  ELSE IF StringLength(newPassword) < 4 THEN "New password must be at least 4 characters long"
  ELSE IF newPassword # confirmPassword THEN "New passwords do not match"
  ELSE ""

\* the form of the open dialog is submitted (the three fields are required)
AccountSettings_handlePasswordChange ==
  /\ mounted = "Auth"
  /\ account.open
  /\ account.currentPassword # "" /\ account.newPassword # "" /\ account.confirmPassword # ""
  /\ LET storedPassword == IF localStorage.password \in {NoItem, ""} THEN "admin"
                                                                     ELSE localStorage.password
         error == AccountSettings_check(storedPassword, account.currentPassword,
                                        account.newPassword, account.confirmPassword)
         verdict == [submitted |-> TRUE, currentPassword |-> account.currentPassword,
                     newPassword |-> account.newPassword,
                     confirmPassword |-> account.confirmPassword,
                     stored |-> localStorage.password]
     IN  IF error # ""
         THEN /\ account' = [account EXCEPT !.error = error, !.success = FALSE,
                                            !.verdict = verdict]
              /\ toasts' = {}
              /\ UNCHANGED localStorage
         ELSE /\ localStorage' = [localStorage EXCEPT !.password = account.newPassword]
              /\ account' = [account EXCEPT !.error = "", !.success = TRUE,
                                            !.currentPassword = "", !.newPassword = "",
                                            !.confirmPassword = "", !.timers = TRUE,
                                            !.verdict = verdict]
              /\ toasts' = {"Password changed successfully!"}
  /\ UNCHANGED <<appVars, isAuthenticated, authRun>>

\* a timeout set by a successful change fires: the dialog closes; another
\* one may still be pending
AccountSettings_timeout ==
  /\ mounted = "Auth"
  /\ account.timers
  /\ \E pending \in BOOLEAN :
       account' = [account EXCEPT !.open = FALSE, !.success = FALSE, !.timers = pending,
                                  !.verdict = NoVerdict]
  /\ toasts' = {}
  /\ UNCHANGED <<appVars, localStorage, isAuthenticated, authRun>>

\* the entries a browser may hold when the page is loaded: the password is
\* absent or one that a change has stored
InitAuth ==
  /\ mounted = "Auth"
  /\ incomeTable = <<>>
  /\ budgetTable = <<>>
  /\ expenseTable = <<>>
  /\ tzWest = FALSE
  /\ clock = NowMonth
  /\ InitIncomeViews
  /\ InitHabitsView
  /\ InitTrendsView
  /\ InitFormViews
  /\ localStorage \in [auth : {NoItem, "authenticated", "true"}, password : {NoItem, "wxyz"}]
  /\ isAuthenticated = FALSE
  /\ authRun = AuthUnmounted
  /\ account = AccountInit

NextAuth ==
  \/ AuthProvider_mount
  \/ AuthProvider_login
  \/ AuthProvider_logout
  \/ AccountSettings_setOpen
  \/ AccountSettings_onChange
  \/ AccountSettings_handlePasswordChange
  \/ AccountSettings_timeout

SpecAuth == InitAuth /\ [][NextAuth]_vars

\* ------------------------------------------------------------------------
\* The expense form over budgets of two categories
\* ------------------------------------------------------------------------
ChoiceBudgets ==
  <<[id |-> 1, name |-> "Food", budgeted_amount |-> 300, category |-> Category("Groceries")],
    [id |-> 2, name |-> "Fuel", budgeted_amount |-> 300, category |-> Category("Gas")]>>

\* the store holds earlier expenses without a budget and has room for one
\* more
ChoiceExpenses ==
  [i \in 1..(MaxExpenses - 1) |->
     [id |-> i, name |-> "Item", amount |-> 10, expense_date |-> Today,
      category |-> Category("Groceries"), budget_id |-> 0]]

InitBudgetChoice ==
  /\ mounted = "ExpenseForm"
  /\ incomeTable = <<>>
  /\ budgetTable = ChoiceBudgets
  /\ expenseTable = ChoiceExpenses
  /\ tzWest = FALSE
  /\ clock = NowMonth
  /\ InitIncomeViews
  /\ InitHabitsView
  /\ InitTrendsView
  /\ InitFormViews
  /\ InitAuthIdle

SpecBudgetChoice == InitBudgetChoice /\ [][ExpenseForm]_vars

\* ------------------------------------------------------------------------
\* The dashboard opened in each month of a year
\* ------------------------------------------------------------------------
\* the months of the year after BaseYear
CalendarMonths == 13..24

\* an expense of the month before the dashboard is opened, of that month or
\* of the month after
CalendarRows(now) ==
  [name : {"Item"}, amount : {10, 20},
   expense_date : {[month |-> now + off, day |-> 15] : off \in {-1, 0, 1}},
   category : {Category("Gas")}, budget_id : {0}]

InitCalendar ==
  /\ mounted = "Stats"
  /\ clock \in CalendarMonths
  /\ incomeTable = <<>>
  /\ budgetTable = SampleBudgets
  /\ expenseTable \in
       {t \in SeqsUpTo(CalendarRows(clock), MaxExpenses) :
          IsCanonical([i \in 1..Len(t) |-> DateKey(t[i].expense_date) * 100 + t[i].amount])}
  /\ tzWest = FALSE
  /\ InitIncomeViews
  /\ InitHabitsView
  /\ InitTrendsView
  /\ InitFormViews
  /\ InitAuthIdle

SpecCalendar == InitCalendar /\ [][loadDashboardStats]_vars

SpecPipelinesFair ==
  /\ SpecPipelines
  /\ WF_vars(analyzeSpendingHabits_error \/ analyzeSpendingHabits_empty \/ analyzeSpendingHabits_analyse)
  /\ WF_vars(loadTrendsData_error \/ loadTrendsData_empty \/ loadTrendsData_analyse)
  /\ WF_vars(loadBudgetFlow_income \/ loadBudgetFlow_budgets \/ loadBudgetFlow_expenses \/ loadBudgetFlow_publish)

\* ------------------------------------------------------------------------
\* Claims on the analyses.  They are stated on the rows the queries returned
\* (habitsRun.expenses, newest first; trendsRun.expenses, oldest first) and on
\* what the views then hold, with the sums recomputed here in integers.
\* ------------------------------------------------------------------------
Reverse(s) == [i \in 1..Len(s) |-> s[Len(s) + 1 - i]]

AmountsOf(rows) == [i \in 1..Len(rows) |-> rows[i].amount]

\* the rows of a category, in the order of rows
RowsOfCategory(rows, categoryName) ==
  SelectSeq(rows, LAMBDA r : CategoryNameOf(r) = categoryName)

\* the rows of a bill (a name within a category), in the order of rows
RowsOfBill(rows, name, categoryName) ==
  SelectSeq(rows, LAMBDA r : r.name = name /\ CategoryNameOf(r) = categoryName)

\* the dates of rows never decrease
IsTimeOrdered(rows) ==
  \A i \in 1..(Len(rows) - 1) : DateKey(rows[i].expense_date) <= DateKey(rows[i + 1].expense_date)

\* the local month of a row
MonthOfRow(r) == LocalDate(r.expense_date, tzWest).month

\* the elements of a set of integers in ascending order
RECURSIVE Ascending(_)
Ascending(S) ==
  IF S = {} THEN <<>>
  ELSE LET least == CHOOSE x \in S : \A y \in S : x <= y
       IN  <<least>> \o Ascending(S \ {least})

\* the monthly totals of rows, one for each month that has a row, oldest first
MonthlySeries(rows) ==
  LET months == Ascending({MonthOfRow(rows[i]) : i \in 1..Len(rows)})
  IN  [k \in 1..Len(months) |->
         ISum(AmountsOf(SelectSeq(rows, LAMBDA r : MonthOfRow(r) = months[k])))]

\* the series of amounts of a category of the habits analysis, oldest first
HabitSeries(categoryName) ==
  AmountsOf(Reverse(RowsOfCategory(habitsRun.expenses, categoryName)))

\* the monthly series of a bill and of a category of the monthly trends
BillSeries(bill) == MonthlySeries(RowsOfBill(trendsRun.expenses, bill.name, bill.category))
CategorySeries(categoryName) == MonthlySeries(RowsOfCategory(trendsRun.expenses, categoryName))

\* the earlier half of a series (oldest first) is its floor(n/2) oldest
\* observations, the later half the rest
EarlierCount(series) == Len(series) \div 2
LaterCount(series) == Len(series) - EarlierCount(series)
EarlierSum(series) == ISum(SubSeq(series, 1, EarlierCount(series)))
LaterSum(series) == ISum(SubSeq(series, EarlierCount(series) + 1, Len(series)))

\* (laterMean - earlierMean) / earlierMean * 100, for a positive earlier mean
ExpectedTrend(series) ==
  Rat((LaterSum(series) * EarlierCount(series) - EarlierSum(series) * LaterCount(series)) * 100,
      EarlierSum(series) * LaterCount(series))

\* the trends the views hold, each with the series it was computed from
StoredTrends ==
  {[view |-> "habits", series |-> HabitSeries(patterns[i].category), trend |-> patterns[i].trend] :
     i \in 1..Len(patterns)}
  \cup {[view |-> "bill", series |-> BillSeries(billTrends[i]), trend |-> billTrends[i].trend] :
          i \in 1..Len(billTrends)}
  \cup {[view |-> "category", series |-> CategorySeries(categoryTrends[i].category),
         trend |-> categoryTrends[i].trend] : i \in 1..Len(categoryTrends)}

\* C4: after analyzeSpendingHabits has analysed a query result, the
\* totalSpent values of the categories add up to the sum of the amounts of
\* all the expenses, and every expense is counted in exactly one category:
\* exactly one pattern carries its category name, and each pattern's
\* frequency and totalSpent are the number and the sum of the expenses of
\* its name.
C4_CategoryTotalsPartition ==
  LET rows == habitsRun.expenses
  IN  rows # <<>> =>
        /\ NSum([i \in 1..Len(patterns) |-> patterns[i].totalSpent]) = Num(ISum(AmountsOf(rows)))
        /\ totalSpending = Num(ISum(AmountsOf(rows)))
        /\ ISum([i \in 1..Len(patterns) |-> patterns[i].frequency]) = Len(rows)
        /\ \A k \in 1..Len(rows) :
             Cardinality({i \in 1..Len(patterns) :
                            patterns[i].category = CategoryNameOf(rows[k])}) = 1
        /\ \A i \in 1..Len(patterns) :
             LET group == RowsOfCategory(rows, patterns[i].category)
             IN  /\ patterns[i].frequency = Len(group)
                 /\ patterns[i].totalSpent = Num(ISum(AmountsOf(group)))

\* three expenses in two categories have been analysed, both totals positive
C4_Witness ==
  /\ habitsRun.pc = "done"
  /\ Len(habitsRun.expenses) = 3
  /\ Len(patterns) = 2
  /\ \A i \in 1..Len(patterns) : NGt(patterns[i].totalSpent, Num(0))

\* C5: for a series of n >= 2 observations the earlier half is the
\* floor(n/2) oldest and the later half the other n - floor(n/2), and when
\* the mean of the earlier half is positive the trend is
\* (laterMean - earlierMean) / earlierMean * 100: for the categories of the
\* habits analysis (rows received newest first) and for the bills and the
\* categories of the monthly trends (rows received oldest first).
C5_TrendOfHalves ==
  /\ \A i \in 1..Len(patterns) :
       IsTimeOrdered(Reverse(RowsOfCategory(habitsRun.expenses, patterns[i].category)))
  /\ IsTimeOrdered(trendsRun.expenses)
  /\ \A t \in StoredTrends :
       (Len(t.series) >= 2 /\ EarlierSum(t.series) > 0) => t.trend = ExpectedTrend(t.series)

\* a category of three positive expenses, the newest and the oldest on
\* different days and of different amounts, received newest first, whose
\* trend is not 0
C5_Witness ==
  /\ habitsRun.pc = "done"
  /\ \E i \in 1..Len(patterns) :
       LET group == RowsOfCategory(habitsRun.expenses, patterns[i].category)
       IN  /\ Len(group) = 3
           /\ DateKey(group[1].expense_date) > DateKey(group[3].expense_date)
           /\ \A k \in 1..3 : group[k].amount > 0
           /\ group[1].amount # group[3].amount
           /\ patterns[i].trend # Num(0)

\* C6: every trend held is a finite number, and it is exactly 0 whenever the
\* mean of the earlier half of its series is 0.
C6_ZeroBaseTrend ==
  \A t \in StoredTrends :
    /\ IsFinite(t.trend)
    /\ (EarlierCount(t.series) >= 1 /\ EarlierSum(t.series) = 0) => t.trend = Num(0)

\* a category of the monthly trends with nothing spent in its earlier months
\* and something in its later ones
C6_Witness ==
  /\ trendsRun.pc = "done"
  /\ \E i \in 1..Len(categoryTrends) :
       LET series == CategorySeries(categoryTrends[i].category)
       IN  /\ Len(series) >= 2
           /\ EarlierSum(series) = 0
           /\ LaterSum(series) > 0
           /\ categoryTrends[i].trend = Num(0)

\* C7: a series of exactly one observation has the trend 0: a category of the
\* habits analysis with one expense, a category of the monthly trends with
\* one month.
C7_SingleObservationTrend ==
  \A t \in StoredTrends : Len(t.series) = 1 => t.trend = Num(0)

\* a category with a single positive expense has been analysed by the habits
\* analysis
C7_Witness ==
  /\ habitsRun.pc = "done"
  /\ \E i \in 1..Len(patterns) :
       /\ patterns[i].frequency = 1
       /\ HabitSeries(patterns[i].category)[1] > 0
       /\ patterns[i].trend = Num(0)

\* the sum of the squares of a series
SumOfSquares(series) == ISum([i \in 1..Len(series) |-> series[i] * series[i]])

\* the variance of a series times the square of its length
ScaledVariance(series) ==
  Len(series) * SumOfSquares(series) - ISum(series) * ISum(series)

\* the earlier means of a and b are equal and positive
SameBase(a, b) ==
  /\ EarlierSum(a) > 0
  /\ EarlierSum(a) * EarlierCount(b) = EarlierSum(b) * EarlierCount(a)

\* the later mean of a is as far above the common earlier mean as the later
\* mean of b is below it: laterMean(a) + laterMean(b) = 2 * earlierMean(a)
MirroredChange(a, b) ==
  (LaterSum(a) * LaterCount(b) + LaterSum(b) * LaterCount(a)) * EarlierCount(a)
    = 2 * EarlierSum(a) * LaterCount(a) * LaterCount(b)

\* C8 as stated: of two series of positive amounts, one the reverse of the
\* other (of even length, so that the halves change places), the trends have
\* equal magnitude and opposite sign.
C8_ReversalSymmetry ==
  \A t, u \in StoredTrends :
    (/\ t.view = u.view
     /\ Len(t.series) >= 2
     /\ Len(t.series) % 2 = 0
     /\ u.series = Reverse(t.series)
     /\ \A i \in 1..Len(t.series) : t.series[i] > 0)
      => t.trend = NNeg(u.trend)

\* C8 (amended): of two series of the same view whose earlier means are equal
\* and positive, and whose later means lie as far above that mean for the one
\* as below it for the other, the trends have equal magnitude and opposite
\* sign.
C8_EqualBaseSymmetry ==
  \A t, u \in StoredTrends :
    (/\ t.view = u.view
     /\ Len(t.series) >= 2
     /\ Len(u.series) >= 2
     /\ SameBase(t.series, u.series)
     /\ MirroredChange(t.series, u.series))
      => t.trend = NNeg(u.trend)

\* two bills with the same positive earlier mean, one rising and one falling
\* by the same amount, with trends that are not 0
C8_Witness ==
  /\ trendsRun.pc = "done"
  /\ \E i, j \in 1..Len(billTrends) :
       /\ i # j
       /\ SameBase(BillSeries(billTrends[i]), BillSeries(billTrends[j]))
       /\ MirroredChange(BillSeries(billTrends[i]), BillSeries(billTrends[j]))
       /\ NGt(billTrends[i].trend, Num(0))
       /\ NLt(billTrends[j].trend, Num(0))

\* the coefficient of variation of a series, the population standard
\* deviation divided by the mean, is below 0.3: with a positive mean the
\* squares compare as the numbers do, and with a negative mean the
\* coefficient is not positive
VariesLittle(series) ==
  \/ ISum(series) > 0 /\ 100 * ScaledVariance(series) < 9 * ISum(series) * ISum(series)
  \/ ISum(series) < 0

\* C9 as stated: a bill is recurring exactly when it has at least 3 monthly
\* observations and its coefficient of variation is below 0.3.
C9_RecurringByVariation ==
  \A i \in 1..Len(billTrends) :
    LET series == BillSeries(billTrends[i])
    IN  billTrends[i].isRecurring <=> (Len(series) >= 3 /\ VariesLittle(series))

\* C9 (amended): a bill is recurring exactly when it has at least 3 monthly
\* observations, its mean is positive and its coefficient of variation is
\* below 0.3; a bill with fewer than 3 observations is never recurring.
C9_RecurringPositiveMean ==
  \A i \in 1..Len(billTrends) :
    LET series == BillSeries(billTrends[i])
    IN  billTrends[i].isRecurring
          <=> (/\ Len(series) >= 3
               /\ ISum(series) > 0
               /\ 100 * ScaledVariance(series) < 9 * ISum(series) * ISum(series))

\* a recurring bill whose amounts vary, together with a bill of three months
\* that is not recurring
C9_Witness ==
  /\ trendsRun.pc = "done"
  /\ \E i, j \in 1..Len(billTrends) :
       /\ billTrends[i].isRecurring
       /\ ScaledVariance(BillSeries(billTrends[i])) > 0
       /\ ~billTrends[j].isRecurring
       /\ Len(BillSeries(billTrends[j])) >= 3

\* C10: of two bills with the same number of observations and the same mean,
\* if the first is recurring and the variance of the second is no larger,
\* the second is recurring too.
C10_RecurringMonotonic ==
  \A i, j \in 1..Len(billTrends) :
    LET first == BillSeries(billTrends[i])
        second == BillSeries(billTrends[j])
    IN  (/\ Len(first) = Len(second)
         /\ ISum(first) = ISum(second)
         /\ billTrends[i].isRecurring
         /\ ScaledVariance(second) <= ScaledVariance(first))
          => billTrends[j].isRecurring

\* two recurring bills with the same mean, the second varying less than the
\* first
C10_Witness ==
  /\ trendsRun.pc = "done"
  /\ \E i, j \in 1..Len(billTrends) :
       /\ Len(BillSeries(billTrends[i])) = Len(BillSeries(billTrends[j]))
       /\ ISum(BillSeries(billTrends[i])) = ISum(BillSeries(billTrends[j]))
       /\ ScaledVariance(BillSeries(billTrends[j])) < ScaledVariance(BillSeries(billTrends[i]))
       /\ billTrends[i].isRecurring
       /\ billTrends[j].isRecurring

\* ------------------------------------------------------------------------
\* Claims on the insights of the habits analysis
\* ------------------------------------------------------------------------
\* the sum of all the amounts received by the habits analysis
GrandTotal == ISum(AmountsOf(habitsRun.expenses))

\* the sum of the amounts received for a category
CategoryTotal(categoryName) ==
  ISum(AmountsOf(RowsOfCategory(habitsRun.expenses, categoryName)))

\* the category names of rows, each once, in the order of first appearance
RECURSIVE FirstAppearancesFrom(_, _, _)
FirstAppearancesFrom(rows, i, seen) ==
  IF i > Len(rows) THEN seen
  ELSE IF \E k \in 1..Len(seen) : seen[k] = CategoryNameOf(rows[i])
       THEN FirstAppearancesFrom(rows, i + 1, seen)
       ELSE FirstAppearancesFrom(rows, i + 1, Append(seen, CategoryNameOf(rows[i])))

FirstAppearances(rows) == FirstAppearancesFrom(rows, 1, <<>>)

\* the positions of the insights of a rule on a category
InsightsOf(rule, categoryName) ==
  {i \in 1..Len(insights) : insights[i].rule = rule /\ insights[i].category = categoryName}

\* the trend published for a category
PublishedTrend(categoryName) ==
  patterns[CHOOSE i \in 1..Len(patterns) : patterns[i].category = categoryName].trend

\* the category is more than 30% of the grand total
IsHighShare(categoryName) == 10 * CategoryTotal(categoryName) > 3 * GrandTotal

\* shown is the percentage of the category in the grand total to the nearest
\* tenth
ShowsShare(shown, categoryName) ==
  /\ IsFinite(shown)
  /\ 20 * Abs(shown.n * GrandTotal - 100 * CategoryTotal(categoryName) * shown.d)
       <= Abs(GrandTotal) * shown.d

C12_TrendInsights ==
  habitsRun.expenses # <<>> =>
    \A c \in Range(FirstAppearances(habitsRun.expenses)) :
      /\ Cardinality(InsightsOf("increasing", c))
           = (IF NGt(PublishedTrend(c), Num(50)) THEN 1 ELSE 0)
      /\ Cardinality(InsightsOf("reduced", c))
           = (IF NLt(PublishedTrend(c), Num(-20)) THEN 1 ELSE 0)
      /\ InsightsOf("increasing", c) = {} \/ InsightsOf("reduced", c) = {}
      /\ \A i \in InsightsOf("increasing", c) : insights[i].type = "warning"
      /\ \A i \in InsightsOf("reduced", c) : insights[i].type = "success"

\* a category whose trend is exactly 50 has been analysed and has no trend
\* insight
C12_Witness ==
  /\ habitsRun.pc = "done"
  /\ \E i \in 1..Len(patterns) :
       /\ patterns[i].trend = Num(50)
       /\ InsightsOf("increasing", patterns[i].category) = {}
       /\ InsightsOf("reduced", patterns[i].category) = {}

\* the rule and the category of each insight of a list, in its order
InsightKeys(list) ==
  [i \in 1..Len(list) |-> [rule |-> list[i].rule, category |-> list[i].category]]

\* the insights a category is to have: high spending first, then its trend
ExpectedCategoryKeys(c) ==
  (IF IsHighShare(c) THEN <<[rule |-> "high", category |-> c]>> ELSE <<>>)
  \o (IF NGt(PublishedTrend(c), Num(50)) THEN <<[rule |-> "increasing", category |-> c]>>
      ELSE IF NLt(PublishedTrend(c), Num(-20)) THEN <<[rule |-> "reduced", category |-> c]>>
      ELSE <<>>)

RECURSIVE ExpectedKeysFrom(_, _)
ExpectedKeysFrom(names, i) ==
  IF i > Len(names) THEN <<>>
  ELSE ExpectedCategoryKeys(names[i]) \o ExpectedKeysFrom(names, i + 1)

\* the category insights in insertion order: categories in the order of their
\* first appearance in the rows received
ExpectedKeys == ExpectedKeysFrom(FirstAppearances(habitsRun.expenses), 1)

\* the list starts with the one daily average of the rows received, and the
\* category insights follow in insertion order
LeadingDailyAverage ==
  /\ insights # <<>>
  /\ insights[1].rule = "daily" /\ insights[1].type = "info"
  /\ insights[1].hasAmount /\ insights[1].amount = Rat(GrandTotal, WindowDays)
  /\ InsightKeys(Tail(insights)) = ExpectedKeys

\* C13 as stated: every run that has published insights has emitted exactly
\* one daily average, first in the list, with the others in insertion order.
C13_AlwaysDailyAverage ==
  (habitsRun.pc = "done" /\ insights # <<>>) => LeadingDailyAverage

\* C13: a run over rows whose grand total is positive emits exactly one
\* 'daily average' info insight with amount grand total / 90, first in the
\* list, and the category insights follow in insertion order (categories by
\* first appearance, high spending before trend); a run over rows whose
\* grand total is not positive emits the category insights alone, and a run
\* over no rows emits the one 'start tracking' info insight.
C13_DailyAverageWhenPositive ==
  /\ (habitsRun.expenses # <<>> /\ GrandTotal > 0) => LeadingDailyAverage
  /\ (habitsRun.expenses # <<>> /\ GrandTotal <= 0) => InsightKeys(insights) = ExpectedKeys
  /\ (habitsRun.pc = "done" /\ habitsRun.expenses = <<>> /\ insights # <<>>) =>
       /\ Len(insights) = 1
       /\ insights[1].rule = "start" /\ insights[1].type = "info"

\* two categories have been analysed and the daily average leads a high
\* spending warning and a trend insight
C13_Witness ==
  /\ habitsRun.pc = "done"
  /\ Len(FirstAppearances(habitsRun.expenses)) = 2
  /\ Len(insights) >= 3
  /\ insights[1].rule = "daily"
  /\ \E i, j \in 2..Len(insights) :
       /\ i < j /\ insights[i].rule = "high"
       /\ insights[j].rule \in {"increasing", "reduced"}

\* ------------------------------------------------------------------------
\* Claims on the order and the grouping of the analyses
\* ------------------------------------------------------------------------
\* no entry of the list has a smaller totalSpent than the entry after it
DescendingByTotalSpent(list) ==
  \A i \in 1..(Len(list) - 1) :
    /\ IsFinite(list[i].totalSpent) /\ IsFinite(list[i + 1].totalSpent)
    /\ ~NLt(list[i].totalSpent, list[i + 1].totalSpent)

\* C14: the category patterns of the habits analysis and the category trends
\* of the trends analysis are in descending order of totalSpent: each entry
\* has a total greater than or equal to that of the entry after it.
C14_SortedByTotalSpent ==
  /\ DescendingByTotalSpent(patterns)
  /\ DescendingByTotalSpent(categoryTrends)

\* two categories have been analysed, and the one that appeared second has
\* the strictly greater total and comes first
C14_Witness ==
  /\ habitsRun.pc = "done"
  /\ Len(patterns) = 2
  /\ patterns[1].category = FirstAppearances(habitsRun.expenses)[2]
  /\ NGt(patterns[1].totalSpent, patterns[2].totalSpent)

\* the rows without a category
UncategorizedRows(rows) == SelectSeq(rows, LAMBDA r : r.category.absent)

\* the positions of the entries of a list for 'Uncategorized'
UncategorizedIn(list) == {i \in 1..Len(list) : list[i].category = "Uncategorized"}

\* the amounts of a month's categories under the key 'Uncategorized'
UncategorizedOfMonth(month) ==
  [i \in 1..Len(month.categories) |->
     IF month.categories[i].key = "Uncategorized" THEN month.categories[i].amount ELSE Num(0)]

\* C15: the expenses without a category are all in the one group
\* 'Uncategorized' of the habits analysis and of the trends analysis, with
\* their count and their sum, and the analysis publishes its result.
C15_UncategorizedGroup ==
  /\ LET u == UncategorizedRows(habitsRun.expenses)
     IN  u # <<>> =>
           /\ Cardinality(UncategorizedIn(patterns)) = 1
           /\ \A i \in UncategorizedIn(patterns) :
                /\ patterns[i].frequency = Len(u)
                /\ patterns[i].totalSpent = Num(ISum(AmountsOf(u)))
                /\ patterns[i].icon = FallbackIcon /\ patterns[i].color = FallbackColor
  /\ LET u == UncategorizedRows(trendsRun.expenses)
     IN  u # <<>> =>
           /\ Cardinality(UncategorizedIn(categoryTrends)) = 1
           /\ \A i \in UncategorizedIn(categoryTrends) :
                /\ categoryTrends[i].totalSpent = Num(ISum(AmountsOf(u)))
                /\ categoryTrends[i].icon = FallbackIcon
           /\ \A i \in 1..Len(monthlyData) :
                Cardinality({k \in 1..Len(monthlyData[i].categories) :
                               monthlyData[i].categories[k].key = "Uncategorized"}) <= 1
           /\ NSum([i \in 1..Len(monthlyData) |-> NSum(UncategorizedOfMonth(monthlyData[i]))])
                = Num(ISum(AmountsOf(u)))

\* two expenses without a category and one with a category have been
\* through the trends analysis
C15_Witness ==
  /\ trendsRun.pc = "done"
  /\ Len(UncategorizedRows(trendsRun.expenses)) = 2
  /\ Len(trendsRun.expenses) = 3
  /\ Len(categoryTrends) = 2
  /\ \A i \in 1..3 : trendsRun.expenses[i].amount > 0

\* the number of rows dated on a day of the month from lo to hi
DatedBetween(rows, lo, hi) ==
  Cardinality({i \in 1..Len(rows) :
                 rows[i].expense_date.day >= lo /\ rows[i].expense_date.day <= hi})

\* the classification of the counts of the three thirds of the month
MajorityThird(e, m, l) ==
  IF e > m /\ e > l THEN "early"
  ELSE IF m > e /\ m > l THEN "mid"
  ELSE IF l > e /\ l > m THEN "late"
  ELSE "consistent"

\* C16: the time-of-month pattern of a category is 'early', 'mid' or 'late'
\* when strictly more of its expenses are dated on days 1..10, 11..20 or
\* after the 20th than in each of the other two thirds, and 'consistent'
\* in every other case.
C16_TimeOfMonthByDate ==
  habitsRun.expenses # <<>> =>
    \A i \in 1..Len(patterns) :
      LET group == RowsOfCategory(habitsRun.expenses, patterns[i].category)
      IN  patterns[i].timeOfMonthPattern
            = MajorityThird(DatedBetween(group, 1, 10), DatedBetween(group, 11, 20),
                            DatedBetween(group, 21, DaysInMonth + 1))

InFlight ==
  (IF statsRun.pc = "budgets" THEN {"loadDashboardStats.budgets"} ELSE {})
  \cup (IF statsRun.pc = "expenses" THEN {"loadDashboardStats.expenses"} ELSE {})
  \cup (IF statsRun.pc = "previous" THEN {"loadDashboardStats.previous"} ELSE {})
  \cup (IF formRun.budgets = "query" THEN {"loadBudgets"} ELSE {})
  \cup (IF formRun.categoryBudgets # {} THEN {"loadBudgetsForCategory"} ELSE {})
  \cup (IF formRun.submit = "insert" THEN {"ExpenseForm.insert"} ELSE {})
  \cup (IF incomeRun.submit = "insert" THEN {"Income.insert"} ELSE {})
  \cup (IF incomeRun.save = "update" THEN {"Income.update"} ELSE {})
  \cup (IF incomeRun.delete # 0 THEN {"Income.delete"} ELSE {})
  \cup (IF recentRun.load = "query" THEN {"RecentExpenses.load"} ELSE {})
  \cup (IF recentRun.delete # {} THEN {"RecentExpenses.delete"} ELSE {})

\* what a successful request of the form views changes: the rows of the
\* store and the data the views hold
SuccessEffects ==
  <<incomeTable, budgetTable, expenseTable, stats, formBudgets,
    [expenseForm EXCEPT !.loading = FALSE], incomes, formData, editing, recentExpenses>>

\* C18: a step in which a request to the store resolves with an error raises
\* a notification, applies none of the effects of a success (the rows of the
\* store and the data held by the views are as before) and leaves the failed
\* request out of flight.
C18_FailuresNotified ==
  [][failures' # {} =>
       /\ toasts' # {}
       /\ SuccessEffects' = SuccessEffects
       /\ failures' \cap InFlight' = {}]_vars

\* a form whose required field is empty or whose amount is not a number
ExpenseForm_isInvalid ==
  \/ expenseForm.selectedCategory = ""
  \/ expenseForm.expenseName = ""
  \/ expenseForm.expenseAmount = ""
  \/ ~IsFinite(ParseFloat(expenseForm.expenseAmount))

Income_isInvalid ==
  \/ formData.name = ""
  \/ formData.amount = ""
  \/ ~IsFinite(ParseFloat(formData.amount))

Income_isInvalidEdit ==
  \/ editing.editData.name = ""
  \/ ~IsFinite(editing.editData.amount)
  \/ editing.editData.amount = Num(0)

ValidationNotices ==
  {"Please fill in required fields", "Please fill in all fields",
   "Please fill in all required fields"}

\* C19: no insert is issued from an expense form or an income form that has
\* a required field empty or an amount that is not a number, and no update
\* from such an edited row; the submission that is turned down raises its
\* notification and leaves the form, the requests in flight and the store
\* as they were.
C19_InvalidNeverSubmitted ==
  [][/\ (formRun.submit # "insert" /\ formRun'.submit = "insert")
          => ~ExpenseForm_isInvalid /\ IsFinite(formRun'.row.amount)
     /\ (incomeRun.submit # "insert" /\ incomeRun'.submit = "insert")
          => ~Income_isInvalid /\ IsFinite(incomeRun'.row.amount)
     /\ (incomeRun.save # "update" /\ incomeRun'.save = "update")
          => ~Income_isInvalidEdit /\ IsFinite(incomeRun'.patch.amount)
     /\ (toasts' \cap ValidationNotices # {})
          => /\ UNCHANGED <<expenseForm, formData, editing, storeVars>>
             /\ InFlight' = InFlight]_vars

\* a submission has just been turned down: the expense form with its name
\* typed and no amount, or the income form with an amount and no name, or an
\* edited row whose amount was cleared
C19_Witness ==
  \/ /\ toasts = {"Please fill in required fields"}
     /\ expenseForm.expenseName = "Rent" /\ expenseForm.expenseAmount = ""
     /\ expenseForm.selectedCategory # ""
  \/ /\ toasts = {"Please fill in all fields"}
     /\ formData.amount = "100" /\ formData.name = ""
  \/ /\ toasts = {"Please fill in all required fields"}
     /\ editing.editingId # 0 /\ editing.editData.amount = Num(0)
     /\ editing.editData.name = "Job"

\* C20: once the recent expenses are loaded and there are some, the table
\* is shown, never an error, and a row whose expense has no category shows
\* the fallback name.
C20_NoCategoryTolerated ==
  (~recentLoading /\ Len(recentExpenses) > 0) =>
     /\ recentShown.view = "table"
     /\ Len(recentShown.rows) = Len(recentExpenses)
     /\ \A i \in 1..Len(recentExpenses) :
          recentExpenses[i].category.absent => recentShown.rows[i].name = "Uncategorized"

\* the amounts of the expenses of the store booked on a budget
SpentOn(id) ==
  ISum([j \in 1..Len(ExpensesOfBudget(expenseTable, id)) |->
          ExpensesOfBudget(expenseTable, id)[j].amount])

\* the published categories are the budget rows, in their order, each with
\* the sum of its own expenses, and the total is the sum of the entries
PublishedPerBudget ==
  /\ Len(flowData.categories) = Len(budgetTable)
  /\ \A i \in 1..Len(budgetTable) :
       /\ flowData.categories[i].name = budgetTable[i].name
       /\ flowData.categories[i].spent = Num(SpentOn(budgetTable[i].id))
  /\ flowData.totalSpent
       = Num(ISum([i \in 1..Len(budgetTable) |-> SpentOn(budgetTable[i].id)]))

\* C21: the budget flow publishes only when every expense fetch has resolved,
\* and what it publishes has one entry per budget row, in budget-row order,
\* each with the sum of that budget's expenses only, and totalSpent the sum
\* of the entries, whatever the order in which the fetches resolved.
C21_PublishedPerBudget ==
  /\ (flowData # FlowDataInit \/ ~flowLoading) => (flowRun.pc = "done" /\ flowRun.pending = {})
  /\ flowRun.pc = "done" => PublishedPerBudget

\* the same of the runs in which no query resolved with an error
BudgetFlow_publishedWhenFetched ==
  /\ (flowData # FlowDataInit \/ ~flowLoading) => (flowRun.pc = "done" /\ flowRun.pending = {})
  /\ (flowRun.pc = "done" /\ flowRun.failed = {}) => PublishedPerBudget

\* a run without errors has published two budgets with different sums
BudgetFlow_publishedTwo ==
  /\ flowRun.pc = "done" /\ flowRun.failed = {}
  /\ Len(flowData.categories) = 2
  /\ flowData.categories[1].spent = Num(30)
  /\ flowData.categories[2].spent = Num(10)

\* the rows the habits run received that carry a category name
RowsNamed(categoryName) ==
  SelectSeq(habitsRun.expenses, LAMBDA e : CategoryNameOf(e) = categoryName)

\* C22: every pattern the habits analysis publishes stands for at least one
\* expense: its transaction count is the number of received rows of its
\* category, at least 1, and its average per transaction is a finite number
\* that, times the count, gives the total.
C22_GroupsNeverEmpty ==
  \A i \in 1..Len(patterns) :
    /\ patterns[i].frequency >= 1
    /\ patterns[i].frequency = Len(RowsNamed(patterns[i].category))
    /\ IsFinite(patterns[i].avgPerTransaction)
    /\ NMul(patterns[i].avgPerTransaction, Num(patterns[i].frequency))
         = patterns[i].totalSpent

\* two patterns are published, one of a single expense and one of two
\* expenses whose average is not one of the amounts
C22_Witness ==
  /\ habitsRun.pc = "done"
  /\ Len(patterns) = 2
  /\ \E i, j \in 1..2 :
       /\ patterns[i].frequency = 1
       /\ patterns[j].frequency = 2
       /\ patterns[j].totalSpent = Num(150)
       /\ patterns[j].avgPerTransaction = Num(75)

\* the key of a row the trends run received
KeyOfRow(r) == BillKey(r.name, CategoryNameOf(r))

\* the keys of the rows received that were paid in two months or more
PublishedKeys ==
  {k \in {KeyOfRow(r) : r \in Range(trendsRun.expenses)} :
     Cardinality({r.expense_date.month : r \in {x \in Range(trendsRun.expenses) :
                                                  KeyOfRow(x) = k}}) >= 2}

\* whether a text holds a hyphen
HasHyphen(text) == Len(HyphenParts(text)) > 1

\* C23: the bills are grouped by the text name-category and one bill is
\* published per text; a row whose name and category hold no hyphen is
\* published under its own name and category, a row whose name holds a
\* hyphen is published under another name and another category (the first
\* two pieces of its name), and rows of different names and categories with
\* the same text are one bill.
C23_BillKeySplit ==
  (trendsRun.pc = "done" /\ trendsRun.expenses # <<>>) =>
    /\ Len(billTrends) = Cardinality(PublishedKeys)
    /\ \A r \in Range(trendsRun.expenses) :
         KeyOfRow(r) \in PublishedKeys =>
           /\ (~HasHyphen(r.name) /\ ~HasHyphen(CategoryNameOf(r))) =>
                \E i \in 1..Len(billTrends) :
                  billTrends[i].name = r.name /\ billTrends[i].category = CategoryNameOf(r)
           /\ HasHyphen(r.name) =>
                /\ \E i \in 1..Len(billTrends) :
                     /\ billTrends[i].name = HyphenParts(r.name)[1]
                     /\ billTrends[i].category = HyphenParts(r.name)[2]
                /\ \A i \in 1..Len(billTrends) :
                     ~(billTrends[i].name = r.name /\ billTrends[i].category = CategoryNameOf(r))

\* Co-op of Gas paid last month and Co of op-Gas paid this month are
\* published as one bill, named Co, of category op
C23_Witness ==
  /\ trendsRun.pc = "done"
  /\ Len(trendsRun.expenses) = 2
  /\ trendsRun.expenses[1].name = "Co-op" /\ CategoryNameOf(trendsRun.expenses[1]) = "Gas"
  /\ trendsRun.expenses[2].name = "Co" /\ CategoryNameOf(trendsRun.expenses[2]) = "op-Gas"
  /\ Len(billTrends) = 1
  /\ billTrends[1].name = "Co" /\ billTrends[1].category = "op"
  /\ Len(billTrends[1].monthlyAmounts) = 2

\* the safety half of C24: loading is on whenever the run is
\* under way, and the step in which the run ends (the fetch resolved with no
\* rows, with rows, or with an error; for the budget flow, the last fetch
\* resolved) turns it off.
C24_LoadingBracketsRun ==
  [][/\ (habitsRun'.pc = "query" => habitsLoading')
     /\ (habitsRun.pc = "query" /\ habitsRun'.pc # "query")
          => (habitsRun'.pc = "done" /\ ~habitsLoading')
     /\ (trendsRun'.pc = "query" => trendsLoading')
     /\ (trendsRun.pc = "query" /\ trendsRun'.pc # "query")
          => (trendsRun'.pc = "done" /\ ~trendsLoading')
     /\ (flowRun'.pc \in {"income", "budgets", "expenses"} => flowLoading')
     /\ (flowRun.pc = "expenses" /\ flowRun'.pc # "expenses")
          => (flowRun'.pc = "done" /\ ~flowLoading')]_vars

\* C24: in each of the three pipelines loading is on whenever the run is
\* under way, the step in which the run ends turns it off, and under the
\* fairness of the resolving steps every run under way is followed by a state
\* in which the run is over and loading is off.
C24_LoadingEnds ==
  /\ C24_LoadingBracketsRun
  /\ (habitsRun.pc = "query") ~> (habitsRun.pc = "done" /\ ~habitsLoading)
  /\ (trendsRun.pc = "query") ~> (trendsRun.pc = "done" /\ ~trendsLoading)
  /\ (flowRun.pc \in {"income", "budgets", "expenses"}) ~> (flowRun.pc = "done" /\ ~flowLoading)

\* the trends query for a period without expenses has resolved and loading
\* is off, after a first run that had rows
C24_Witness ==
  /\ trendsRun.pc = "done"
  /\ trendsRun.expenses = <<>>
  /\ selectedPeriod = "6"
  /\ monthlyData # <<>>
  /\ ~trendsLoading

\* C25: whatever the month the dashboard is opened in, the rows returned by
\* the query of this month's expenses are the expenses of that month, the
\* rows returned by the query of last month's expenses are the expenses of
\* the month before, and the lower bound of that query is not later than its
\* upper bound.
C25_QueriesCoverMonths ==
  /\ (statsRun.pc \in {"previous", "done"} /\ "expenses" \notin statsRun.failed)
       => statsRun.expenses = InMonth(expenseTable, clock)
  /\ (statsRun.pc = "done" /\ "previous" \notin statsRun.failed)
       => /\ statsRun.prevExpenses = InMonth(expenseTable, clock - 1)
          /\ ~TextBefore(Dashboard_previousRange(MonthNumOf(clock), YearOf(clock)).lt,
                         Dashboard_previousRange(MonthNumOf(clock), YearOf(clock)).gte)

\* in every month but January both queries return the expenses of their
\* month
C25_CoverOutsideJanuary ==
  MonthNumOf(clock) # 1 => C25_QueriesCoverMonths

\* the query of this month's expenses returns the expenses of the month in
\* every month, December and January included
C25_CurrentMonthCovered ==
  (statsRun.pc \in {"previous", "done"} /\ "expenses" \notin statsRun.failed)
    => statsRun.expenses = InMonth(expenseTable, clock)

\* opened in December with expenses in December and in the January after
C25_December ==
  /\ MonthNumOf(clock) = 12
  /\ statsRun.pc = "done"
  /\ statsRun.failed = {}
  /\ statsRun.expenses # <<>>
  /\ Len(statsRun.expenses) < Len(expenseTable)

\* the rows of the selected period, and whether what is shown was derived
\* from them in one of the orders the store may return them in
SelectedPeriodRows == Since(expenseTable, MonthsAgo(ParseInt(selectedPeriod)))

ShownIsDerivedFrom(rows) ==
  \E expenses \in Orderings(rows, ExpenseDateKeys(rows), FALSE) :
    /\ monthlyData = Trends_analysis(expenses, tzWest).monthlyData
    /\ billTrends = Trends_analysis(expenses, tzWest).billTrends
    /\ categoryTrends = Trends_analysis(expenses, tzWest).categoryTrends

\* C26: once the fetch for the selected period has resolved without an
\* error, the monthly totals, bill trends and category trends that are shown
\* are those derived from the rows of the selected period, and are empty when
\* the period has no expenses.
C26_ShownIsSelectedPeriod ==
  (mounted = "Trends" /\ trendsRun.pc = "done" /\ failures = {})
    => IF SelectedPeriodRows = <<>>
       THEN monthlyData = <<>> /\ billTrends = <<>> /\ categoryTrends = <<>>
       ELSE ShownIsDerivedFrom(SelectedPeriodRows)

\* when the selected period has expenses, what is shown is derived from them
C26_ShownWhenRows ==
  (mounted = "Trends" /\ trendsRun.pc = "done" /\ failures = {} /\ SelectedPeriodRows # <<>>)
    => ShownIsDerivedFrom(SelectedPeriodRows)

\* the period was changed to one with expenses and its fetch has resolved
C26_PeriodChanged ==
  /\ mounted = "Trends" /\ trendsRun.pc = "done" /\ failures = {}
  /\ selectedPeriod = "18"
  /\ Len(SelectedPeriodRows) = 2
  /\ Len(monthlyData) = 2

\* the budget of an id
BudgetOfId(id) == CHOOSE b \in Range(budgetTable) : b.id = id

\* C27: every expense the form has inserted with a budget references a
\* budget of the category it was submitted with.
C27_BudgetOfSubmittedCategory ==
  \A i \in 1..Len(expenseTable) :
    expenseTable[i].budget_id # 0
      => /\ expenseTable[i].budget_id \in IdsOf(budgetTable)
         /\ CategoryNameOf(BudgetOfId(expenseTable[i].budget_id)) = expenseTable[i].category.name

\* every inserted expense references no budget or a budget of the store
C27_BudgetExists ==
  \A i \in 1..Len(expenseTable) :
    expenseTable[i].budget_id \in {0} \cup IdsOf(budgetTable)

\* an expense was inserted with a budget of its category
C27_Inserted ==
  \E i \in 1..Len(expenseTable) :
    /\ expenseTable[i].budget_id = 2
    /\ expenseTable[i].category.name = "Gas"

\* C28: after every step that leaves the mount effect of AuthProvider run,
\* isAuthenticated is true exactly when the persisted entry is
\* 'authenticated'; the last login returned true exactly for ('admin',
\* 'admin'), and then the user is authenticated; a login that returns false
\* changes neither the flag nor the persisted entry.
C28_AuthenticatedIffPersisted ==
  [][/\ authRun'.mounted => (isAuthenticated' <=> localStorage'.auth = "authenticated")
     /\ authRun'.login.called
          => (authRun'.login.returned
                <=> (authRun'.login.username = "admin" /\ authRun'.login.password = "admin"))
     /\ (authRun'.login # authRun.login /\ authRun'.login.returned)
          => (isAuthenticated' /\ localStorage'.auth = "authenticated")
     /\ (authRun'.login # authRun.login /\ ~authRun'.login.returned)
          => (isAuthenticated' = isAuthenticated /\ localStorage' = localStorage)]_vars

\* the user has logged in, logged out and been refused since the mount
C28_Witness ==
  /\ authRun.mounted
  /\ authRun.login.called /\ ~authRun.login.returned /\ authRun.login.username = "admin"
  /\ ~isAuthenticated
  /\ localStorage.auth = NoItem

\* the password a submission is checked against
StoredOrDefault(stored) == IF stored = NoItem THEN "admin" ELSE stored

\* C29: a submission of the password form stores the new password only if
\* the current password equals the stored one ('admin' when none is stored),
\* the new one has at least 4 characters and the confirmation equals it;
\* otherwise the stored password is unchanged, success is false and the error
\* is that of the first failing check in that order.
C29_PasswordChangeChecks ==
  account.verdict.submitted =>
    LET v == account.verdict
        wrongCurrent == v.currentPassword # StoredOrDefault(v.stored)
        tooShort == StringLength(v.newPassword) < 4
        mismatch == v.newPassword # v.confirmPassword
    IN  IF wrongCurrent \/ tooShort \/ mismatch
        THEN /\ localStorage.password = v.stored
             /\ ~account.success
             /\ account.error = (IF wrongCurrent THEN "Current password is incorrect"
                                 ELSE IF tooShort
                                      THEN "New password must be at least 4 characters long"
                                      ELSE "New passwords do not match")
        ELSE /\ localStorage.password = v.newPassword
             /\ account.success
             /\ account.error = ""

\* a new password that is too short and differs from its confirmation was
\* rejected after a change had succeeded
C29_Witness ==
  /\ account.verdict.submitted
  /\ account.verdict.stored = "wxyz"
  /\ account.verdict.currentPassword = "wxyz"
  /\ account.verdict.newPassword = "abc"
  /\ account.verdict.confirmPassword = "admin"
  /\ localStorage.password = "wxyz"

\* C30: whatever password AccountSettings has stored, the last login
\* returned true for ('admin', 'admin') and false for 'admin' with the stored
\* password when that is not 'admin'.
C30_LoginIgnoresStoredPassword ==
  (authRun.login.called /\ authRun.login.username = "admin")
    => /\ authRun.login.password = "admin" => authRun.login.returned
       /\ (authRun.login.password = authRun.login.stored /\ authRun.login.stored # "admin")
            => ~authRun.login.returned

\* after a change of the password to 'wxyz', login was called with ('admin',
\* 'wxyz')
C30_Witness ==
  /\ account.verdict.submitted /\ account.success
  /\ authRun.login.called
  /\ authRun.login.username = "admin"
  /\ authRun.login.password = "wxyz"
  /\ authRun.login.stored = "wxyz"
  /\ ~authRun.login.returned

\* after a change of the password to 'wxyz', login was called with ('admin',
\* 'admin') and returned true
C30_AdminStillAccepted ==
  /\ authRun.login.called
  /\ authRun.login.password = "admin"
  /\ authRun.login.stored = "wxyz"
  /\ authRun.login.returned

====
